---- MODULE Spec2Model ----
(***************************************************************************)
(* State-machine model of the multi-tenant notes backend: the document     *)
(* store (accounts, users, notes, tags, payments, subscriptions), the      *)
(* middleware chain of every route, and the handlers split at the points   *)
(* where they await the store or the payment gateway.                      *)
(*                                                                         *)
(* Strings that the code trims or lower-cases are sequences of one-letter  *)
(* strings, so that trim and toLowerCase are computed, not assumed.        *)
(* A mongoose document held by a request (req.account, a loaded note or    *)
(* payment) is a snapshot; save() writes only the paths the handler set.   *)
(***************************************************************************)
EXTENDS Integers, Sequences, FiniteSets, TLC

\* ------------------------------------------------------------- bounds
MaxNotes == 2
MaxQuotaNotes == 4
MaxRaceNotes == 2
MaxPayments == 2
MaxInFlight == 2
MaxSeconds == 1
MaxTokens == 4
MaxUsers == 4
MaxAccounts == 3

\* ---------------------------------------------------- program constants
FreeMaxNotes == 20
ProMaxNotes == -1
ProLimit == -1
DefaultLimit == 3
CancelLimit == 3
MsPerSecond == 1000
PageCap == 100
TokenLifeSeconds == 604800
MinPasswordLength == 6

ROLES == [ADMIN |-> "admin", MEMBER |-> "member"]
SUBSCRIPTION_PLANS == [FREE |-> "free", PRO |-> "pro"]
SUBSCRIPTION_LIMITS ==
  [free |-> [maxNotes |-> FreeMaxNotes], pro |-> [maxNotes |-> ProMaxNotes]]
PAYMENT_STATUS ==
  [PENDING |-> "pending", SUCCESS |-> "success", FAILED |-> "failed",
   REFUNDED |-> "refunded"]

\* ------------------------------------------------------------ strings
UNDEF == <<"undefined">>

RECURSIVE TrimLeft(_)
TrimLeft(s) ==
  IF s # <<>> /\ Head(s) = " " THEN TrimLeft(Tail(s)) ELSE s

RECURSIVE TrimRight(_)
TrimRight(s) ==
  IF s # <<>> /\ s[Len(s)] = " "
  THEN TrimRight(SubSeq(s, 1, Len(s) - 1))
  ELSE s

trim(s) == TrimRight(TrimLeft(s))

toLowerCase(s) ==
  [i \in 1..Len(s) |-> IF s[i] = "W" THEN "w"
                       ELSE IF s[i] = "A" THEN "a" ELSE s[i]]

\* JavaScript truthiness of a string-or-undefined value
Truthy(s) == s # UNDEF /\ s # <<>>

\* ------------------------------------------------------------ universe
AccountIds == {1, 2}
UserIds == {1, 2, 3}
Slots == 1..MaxInFlight

VARIABLES accounts, roles, users, notes, tags, payments, subscriptions,
          orders, tokens, now, req, resp, overlapped

vars == <<accounts, roles, users, notes, tags, payments, subscriptions,
          orders, tokens, now, req, resp, overlapped>>

store == <<accounts, roles, users, notes, tags, payments, subscriptions>>

\* accountSchema defaults, as register writes them; base is the slug that
\* generateSlug made of the account's name, which the document does not carry
NewAccount(slug) ==
  [slug |-> slug, plan |-> SUBSCRIPTION_PLANS.FREE, limit |-> DefaultLimit,
   noteCount |-> 0, currentSubscription |-> 0,
   isActive |-> TRUE, isDeleted |-> FALSE, base |-> slug]

\* userSchema.password: minlength
validPassword(password) == Len(password) >= MinPasswordLength

\* hashPassword (bcrypt) and comparePassword
hashPassword(password) == <<"bcrypt", password>>
comparePassword(password, hash) == hash = hashPassword(password)

\* roleSchema: the role of an account that users refer to
NewRole(account, roleName) == [account |-> account, roleName |-> roleName]

\* userSchema defaults and setters (email is stored lower-cased and trimmed);
\* role is the id of a Role; the pre-save hook stores the password hashed
NewUser(account, email, role, t) ==
  [account |-> account, email |-> trim(toLowerCase(email)), role |-> role,
   isActive |-> TRUE,
   isDeleted |-> FALSE, tokensInvalidBefore |-> t,
   password |-> hashPassword("passwd")]

\* populate("role"): the role name of a user, "none" when the Role is gone
RoleName(u) ==
  IF users[u].role \in DOMAIN roles THEN roles[users[u].role].roleName
  ELSE "none"

\* the body of POST /subscription/verify-payment with every field missing
NoSignature == <<>>
NoArgs ==
  [razorpay_order_id |-> 0, razorpay_payment_id |-> 0,
   razorpay_signature |-> NoSignature, paymentId |-> 0]

\* the body of POST /auth/register with every field missing
NoRegister ==
  [email |-> UNDEF, password |-> "", name |-> UNDEF, accountName |-> UNDEF]

\* the body of POST /auth/invite with every field missing
NoInvite == [email |-> UNDEF, name |-> UNDEF, role |-> "undefined"]

\* extractToken's null: the request carries no token
NoToken == [userId |-> 0, iat |-> 0, exp |-> 0, issuedAt |-> 0, signed |-> FALSE]

\* the body of POST /auth/change-password with both fields missing
NoPasswords == [currentPassword |-> "", newPassword |-> ""]

\* req.subscriptionInfo before attachSubscriptionInfo has run
NoInfo ==
  [plan |-> "none", usage |-> [noteCount |-> 0, maxNotes |-> 0],
   canCreateNote |-> FALSE]

\* const { page = 1, limit = 10 } = req.query
DefaultQuery == [page |-> 1, limit |-> 10]

NoBody == [title |-> UNDEF, description |-> UNDEF, tags |-> <<UNDEF>>]

IdleReq ==
  [pc |-> "idle", op |-> "none", user |-> 0, account |-> 0,
   snap |-> NewAccount(<<>>), role |-> "none",
   tenantFilter |-> [account |-> 0, user |-> 0],
   id |-> 0, body |-> NoBody, i |-> 0, tagIds |-> <<>>, doc |-> 0,
   slug |-> <<>>, args |-> NoArgs, sub |-> 0,
   loaded |-> NewUser(0, <<>>, 0, 0), stamp |-> 0, passwords |-> NoPasswords,
   decoded |-> NoToken, invite |-> NoInvite, reg |-> NoRegister,
   query |-> DefaultQuery, subscriptionInfo |-> NoInfo]

\* The last response sent, and the documents its body carries
NoResp ==
  [op |-> "none", user |-> 0, status |-> 0, notes |-> {},
   tags |-> {}, payments |-> {}, subscriptions |-> {},
   canCreateNote |-> FALSE]

\* ---------------------------------------------------------- middleware

\* generateToken: jwt.sign under JWT_SECRET stamps iat in whole seconds and
\* exp seven days later; issuedAt is the clock reading iat was derived from,
\* which the token itself does not carry
generateToken(u, t) ==
  [userId |-> u, iat |-> t \div MsPerSecond,
   exp |-> t \div MsPerSecond + TokenLifeSeconds, issuedAt |-> t,
   signed |-> TRUE]

\* extractToken: the Bearer token of the Authorization header, else the
\* token cookie, else null
extractToken(headers) ==
  IF headers.authorization.scheme = "Bearer "
    THEN headers.authorization.token
  ELSE headers.cookies.token

\* jwt.verify(token, JWT_SECRET) at clock reading t: the error it throws
jwtVerify(tok, t) ==
  IF ~tok.signed THEN "JsonWebTokenError"
  ELSE IF t \div MsPerSecond >= tok.exp THEN "TokenExpiredError"
  ELSE "ok"

\* authenticate without the tokensInvalidBefore comparison
authenticate_NoWatermark(tok) ==
  LET u == tok.userId IN
  IF tok = NoToken THEN 401
  ELSE IF jwtVerify(tok, now) # "ok" THEN 401
  ELSE IF u \notin DOMAIN users \/ ~users[u].isActive \/ users[u].isDeleted
    THEN 401
  ELSE IF users[u].account \notin DOMAIN accounts
          \/ ~accounts[users[u].account].isActive
          \/ accounts[users[u].account].isDeleted
    THEN 401
  ELSE 0

\* authenticate without the isActive and isDeleted tests on the user
authenticate_AnyUser(tok) ==
  LET u == tok.userId IN
  IF tok = NoToken THEN 401
  ELSE IF jwtVerify(tok, now) # "ok" THEN 401
  ELSE IF u \notin DOMAIN users THEN 401
  ELSE IF tok.iat * MsPerSecond < users[u].tokensInvalidBefore
    THEN 401
  ELSE IF users[u].account \notin DOMAIN accounts
          \/ ~accounts[users[u].account].isActive
          \/ accounts[users[u].account].isDeleted
    THEN 401
  ELSE 0

\* authenticate without the isActive and isDeleted tests on the account
authenticate_AnyAccount(tok) ==
  LET u == tok.userId IN
  IF tok = NoToken THEN 401
  ELSE IF jwtVerify(tok, now) # "ok" THEN 401
  ELSE IF u \notin DOMAIN users THEN 401
  ELSE IF ~users[u].isActive \/ users[u].isDeleted THEN 401
  ELSE IF tok.iat * MsPerSecond < users[u].tokensInvalidBefore
    THEN 401
  ELSE IF users[u].account \notin DOMAIN accounts THEN 401
  ELSE 0

\* authenticate: 401 unless the token, the user, the watermark and the
\* account allow
authenticate(tok) ==
  LET u == tok.userId IN
  IF tok = NoToken THEN 401
  ELSE IF jwtVerify(tok, now) # "ok" THEN 401
  ELSE IF u \notin DOMAIN users \/ ~users[u].isActive \/ users[u].isDeleted
    THEN 401
  ELSE IF tok.iat * MsPerSecond < users[u].tokensInvalidBefore
    THEN 401
  ELSE IF users[u].account \notin DOMAIN accounts
          \/ ~accounts[users[u].account].isActive
          \/ accounts[users[u].account].isDeleted
    THEN 401
  ELSE 0

\* ensureTenantIsolation leaving the account out of the filter
ensureTenantIsolation_Open(u) == [account |-> 0, user |-> 0]

\* ensureTenantIsolation: the filter every notes query starts from
ensureTenantIsolation(u) == [account |-> users[u].account, user |-> 0]

\* checkAccountStatus
checkAccountStatus(account) ==
  IF ~account.isActive THEN 403
  ELSE IF account.isDeleted THEN 403
  ELSE 0

\* the message checkAccountStatus sends with its 403
checkAccountStatusMessage(account) ==
  IF ~account.isActive THEN "Account is suspended"
  ELSE IF account.isDeleted THEN "Account has been deleted"
  ELSE "none"

\* requireMember
requireMember(role) ==
  IF role \notin {ROLES.ADMIN, ROLES.MEMBER} THEN 403 ELSE 0

\* requireRole letting every role through
requireRole_Any(role, requiredRole) == 0

\* requireRole(requiredRole)
requireRole(role, requiredRole) ==
  IF role # requiredRole THEN 403 ELSE 0

\* requireOwnershipOrAdmin leaving the filter as it is for everyone
requireOwnershipOrAdmin_Skip(filter, u, role) == filter

\* requireOwnershipOrAdmin: non-admins get an owner constraint in the filter
requireOwnershipOrAdmin(filter, u, role) ==
  IF role = ROLES.ADMIN THEN filter ELSE [filter EXCEPT !.user = u]

\* checkNoteLimit letting every creation through
checkNoteLimit_Open(account) == 0

\* checkNoteLimit on the account bound by authenticate
checkNoteLimit(account) ==
  IF account.plan = SUBSCRIPTION_PLANS.PRO THEN 0
  ELSE IF account.noteCount >= SUBSCRIPTION_LIMITS[account.plan].maxNotes
    THEN 403
  ELSE 0

\* Account.canCreateNote virtual
canCreateNote(account) ==
  IF account.plan = SUBSCRIPTION_PLANS.PRO THEN TRUE
  ELSE account.noteCount < account.limit

\* attachSubscriptionInfo: req.subscriptionInfo for the account bound by
\* authenticate
attachSubscriptionInfo(account) ==
  [plan |-> account.plan,
   usage |-> [noteCount |-> account.noteCount,
              maxNotes |-> SUBSCRIPTION_LIMITS[account.plan].maxNotes],
   canCreateNote |->
     \/ account.plan = SUBSCRIPTION_PLANS.PRO
     \/ account.noteCount < SUBSCRIPTION_LIMITS[account.plan].maxNotes]

\* First failing status of a chain of stage results, 0 when all pass
RECURSIVE FirstFailure(_)
FirstFailure(stages) ==
  IF stages = <<>> THEN 0
  ELSE IF Head(stages) # 0 THEN Head(stages)
  ELSE FirstFailure(Tail(stages))

\* The request context authenticate binds (req.user, req.account)
Bound(s, op, tok) ==
  LET u == tok.userId IN
  [IdleReq EXCEPT !.op = op, !.user = u, !.account = users[u].account,
                  !.snap = accounts[users[u].account], !.role = RoleName(u),
                  !.loaded = users[u], !.decoded = tok,
                  !.tenantFilter = ensureTenantIsolation(u)]

\* router.use(authenticate, ensureTenantIsolation, checkAccountStatus)
notesRouter(tok) ==
  IF authenticate(tok) # 0 THEN authenticate(tok)
  ELSE FirstFailure(<<checkAccountStatus(accounts[users[tok.userId].account]),
                      requireMember(RoleName(tok.userId))>>)

\* ------------------------------------------------------------ queries

\* a query that drops the owner constraint
Matches_AnyOwner(n, filter) ==
  /\ (filter.account # 0 => notes[n].account = filter.account)
  /\ ~notes[n].isDeleted

\* a filter field that is absent (0) constrains nothing
Matches(n, filter) ==
  /\ (filter.account # 0 => notes[n].account = filter.account)
  /\ (filter.user # 0 => notes[n].user = filter.user)
  /\ ~notes[n].isDeleted

\* Note.findOne without isDeleted: false in its filter
NoteFindOne_Deleted(id, filter) ==
  IF /\ id \in DOMAIN notes
     /\ (filter.account # 0 => notes[id].account = filter.account)
     /\ (filter.user # 0 => notes[id].user = filter.user)
  THEN id ELSE 0

\* Note.findOne({_id, ...tenantFilter, isDeleted: false}); 0 when none
NoteFindOne(id, filter) ==
  IF id \in DOMAIN notes /\ Matches(id, filter) THEN id ELSE 0

\* Note.find({...tenantFilter, isDeleted: false})
NoteFind(filter) == {n \in DOMAIN notes : Matches(n, filter)}

TagFindOne(account, name) ==
  IF \E t \in DOMAIN tags : tags[t].account = account /\ tags[t].tagName = name
  THEN CHOOSE t \in DOMAIN tags :
         tags[t].account = account /\ tags[t].tagName = name
  ELSE 0

LiveNotes(a) == {n \in DOMAIN notes : notes[n].account = a /\ ~notes[n].isDeleted}

TagsOf(ns) == UNION {{notes[n].tags[k] : k \in DOMAIN notes[n].tags} : n \in ns}

InFlight(op) == {s \in Slots : req[s].op = op}

\* ---------------------------------------------------------- responses

\* sendResponse / sendError of a request in flight
Send(s, status, data) ==
  /\ resp' = [data EXCEPT !.op = req[s].op, !.user = req[s].user,
                          !.status = status]
  /\ req' = [req EXCEPT ![s] = IdleReq]
  /\ UNCHANGED overlapped

Respond(s, status) == Send(s, status, NoResp)

\* sendError of a middleware, before the handler runs
Reject(op, tok, status) ==
  /\ resp' = [NoResp EXCEPT !.op = op, !.user = tok.userId,
                            !.status = status]
  /\ UNCHANGED <<req, overlapped>>

\* a request is taken up, or goes on to its next step; overlapped records
\* that this happened while another request was in flight
Enter(s, r) ==
  /\ req' = [req EXCEPT ![s] = r]
  /\ resp' = NoResp
  /\ overlapped' = (overlapped \/ \E t \in Slots \ {s} : req[t].pc # "idle")

\* ---------------------------------------------------------- Init

\* Two registered accounts on the free plan, each with the admin register
\* creates; account 1 also has a member whose isActive flag is set (inviteUser
\* creates members inactive and no handler activates them). Every user holds
\* a token from a login one millisecond after the user was created.
Init ==
  /\ accounts = (1 :> NewAccount(<<"a">>) @@ 2 :> NewAccount(<<"b">>))
  /\ roles = <<NewRole(1, ROLES.ADMIN), NewRole(1, ROLES.MEMBER),
               NewRole(2, ROLES.ADMIN)>>
  /\ users = (1 :> NewUser(1, <<"a">>, 1, 0) @@ 2 :> NewUser(1, <<"m">>, 2, 0)
              @@ 3 :> NewUser(2, <<"b">>, 3, 0))
  /\ notes = <<>>
  /\ tags = <<>>
  /\ payments = <<>>
  /\ subscriptions = <<>>
  /\ orders = 0
  /\ now = 1
  /\ tokens = {generateToken(u, 1) : u \in UserIds}
  /\ req = [s \in Slots |-> IdleReq]
  /\ resp = NoResp
  /\ overlapped = FALSE

\* ------------------------------------------------------------- notes

\* Tag.findOrCreate normalises the name it is given
normalizedTagName(tagName) == trim(toLowerCase(tagName))

\* where a handler goes once its tag loop is done
AfterTags(r) == IF r.op = "createNote" THEN "noteSave" ELSE "noteUpdate"

\* the tag names a handler loops over (none when tags is not given)
TagList(body) == IF body.tags = <<UNDEF>> THEN <<>> ELSE body.tags

TagLoop(r) ==
  IF r.i > Len(TagList(r.body)) THEN [r EXCEPT !.pc = AfterTags(r)]
  ELSE IF trim(TagList(r.body)[r.i]) = <<>> THEN [r EXCEPT !.i = r.i + 1]
  ELSE [r EXCEPT !.pc = "tagFind"]

RECURSIVE SkipBlankTags(_)
SkipBlankTags(r) ==
  IF TagLoop(r).pc = r.pc /\ TagLoop(r).i # r.i
  THEN SkipBlankTags(TagLoop(r))
  ELSE TagLoop(r)

\* POST /notes: the middleware chain, checkNoteLimit, and createNote up to
\* its first await
createNote(s, tok, body) ==
  /\ req[s].pc = "idle"
  /\ UNCHANGED <<store, orders, tokens, now>>
  /\ LET r == Bound(s, "createNote", tok)
         gate == IF notesRouter(tok) # 0 THEN notesRouter(tok)
                 ELSE checkNoteLimit(r.snap)
     IN IF gate # 0 THEN Reject("createNote", tok, gate)
        ELSE IF ~Truthy(body.title) THEN Reject("createNote", tok, 400)
        ELSE Enter(s, SkipBlankTags([r EXCEPT !.pc = "tags", !.i = 1,
                                              !.body = body]))

\* Tag.findOrCreate: findOne by account and normalised name
tagFindOne(s) ==
  /\ req[s].pc = "tagFind"
  /\ UNCHANGED <<store, orders, tokens, now>>
  /\ LET r == req[s]
         t == TagFindOne(r.account, normalizedTagName(trim(TagList(r.body)[r.i])))
     IN IF t # 0
        THEN Enter(s, SkipBlankTags([r EXCEPT !.pc = "tags", !.i = r.i + 1,
                                              !.tagIds = Append(r.tagIds, t)]))
        ELSE Enter(s, [r EXCEPT !.pc = "tagCreate"])

\* Tag.findOrCreate: create; the unique index on (account, tagName) makes a
\* second insert of the same name throw, which the handler answers with 500
tagCreate(s) ==
  /\ req[s].pc = "tagCreate"
  /\ UNCHANGED <<roles, accounts, users, notes, payments, subscriptions, orders, tokens, now>>
  /\ LET r == req[s]
         name == normalizedTagName(trim(TagList(r.body)[r.i]))
     IN IF TagFindOne(r.account, name) # 0
        THEN /\ UNCHANGED tags
             /\ Respond(s, 500)
        ELSE /\ tags' = Append(tags, [account |-> r.account, tagName |-> name])
             /\ Enter(s, SkipBlankTags(
                  [r EXCEPT !.pc = "tags", !.i = r.i + 1,
                            !.tagIds = Append(r.tagIds, Len(tags) + 1)]))

\* createNote: note.save(); a title that trims to nothing fails validation
noteSave(s) ==
  /\ req[s].pc = "noteSave"
  /\ UNCHANGED <<roles, accounts, users, tags, payments, subscriptions, orders, tokens, now>>
  /\ LET r == req[s] IN
     IF trim(r.body.title) = <<>>
     THEN /\ UNCHANGED notes
          /\ Respond(s, 500)
     ELSE /\ notes' = Append(notes,
               [account |-> r.account, user |-> r.user,
                title |-> trim(r.body.title),
                description |-> IF Truthy(r.body.description)
                                THEN trim(r.body.description) ELSE <<>>,
                tags |-> r.tagIds, isDeleted |-> FALSE])
          /\ Enter(s, [r EXCEPT !.pc = "noteCount", !.doc = Len(notes) + 1])

\* incrementNoteCount that leaves the count alone
incrementNoteCount_Keep(account) == account.noteCount

\* Account.incrementNoteCount on the request's copy of the account
incrementNoteCount(account) == account.noteCount + 1

\* createNote: account.incrementNoteCount(), then 201
noteCount(s) ==
  /\ req[s].pc = "noteCount"
  /\ UNCHANGED <<roles, users, notes, tags, payments, subscriptions, orders, tokens, now>>
  /\ accounts' = [accounts EXCEPT ![req[s].account].noteCount =
                                     incrementNoteCount(req[s].snap)]
  /\ Respond(s, 201)

\* skip = (parseInt(page) - 1) * parseInt(limit)
skip(query) == (query.page - 1) * query.limit

\* find(...).skip(skip).limit(limit).sort({createdAt: -1}) over documents whose
\* ids grow with their creation: the documents that have at least skip and
\* fewer than skip + limit later ones before them (page and limit positive)
Page(ids, query) ==
  {n \in ids :
     LET rank == Cardinality({m \in ids : m > n})
     IN rank >= skip(query) /\ rank < skip(query) + query.limit}

\* the notes a response carries, with their populated tags
WithNotes(ns) == [NoResp EXCEPT !.notes = ns, !.tags = TagsOf(ns)]

\* GET /notes/:id up to the lookup
getNoteById(s, tok, id) ==
  /\ req[s].pc = "idle"
  /\ UNCHANGED <<store, orders, tokens, now>>
  /\ LET r == Bound(s, "getNoteById", tok) IN
     IF notesRouter(tok) # 0 THEN Reject("getNoteById", tok, notesRouter(tok))
     ELSE Enter(s, [r EXCEPT !.pc = "getFind", !.id = id,
                     !.tenantFilter =
                       requireOwnershipOrAdmin(r.tenantFilter, r.user, r.role)])

\* getNoteById: Note.findOne, then 404 or the note
getFind(s) ==
  /\ req[s].pc = "getFind"
  /\ UNCHANGED <<store, orders, tokens, now>>
  /\ LET n == NoteFindOne(req[s].id, req[s].tenantFilter) IN
     IF n = 0 THEN Respond(s, 404) ELSE Send(s, 200, WithNotes({n}))

\* GET /notes up to the query
getNotes(s, tok, query) ==
  /\ req[s].pc = "idle"
  /\ UNCHANGED <<store, orders, tokens, now>>
  /\ IF notesRouter(tok) # 0 THEN Reject("getNotes", tok, notesRouter(tok))
     ELSE Enter(s, [Bound(s, "getNotes", tok) EXCEPT !.pc = "list",
                                                     !.query = query])

\* getNotes: Note.find on the tenant filter
list(s) ==
  /\ req[s].pc = "list"
  /\ UNCHANGED <<store, orders, tokens, now>>
  /\ Send(s, 200, WithNotes(Page(NoteFind(req[s].tenantFilter), req[s].query)))

\* GET /notes/my-notes up to the query
getMyNotes(s, tok, query) ==
  /\ req[s].pc = "idle"
  /\ UNCHANGED <<store, orders, tokens, now>>
  /\ IF notesRouter(tok) # 0 THEN Reject("getMyNotes", tok, notesRouter(tok))
     ELSE Enter(s, [Bound(s, "getMyNotes", tok) EXCEPT !.pc = "myList",
                                                       !.query = query])

\* getMyNotes querying on the tenant filter alone, as getNotes does
myList_TenantFilter(s) ==
  /\ req[s].pc = "myList"
  /\ UNCHANGED <<store, orders, tokens, now>>
  /\ Send(s, 200, WithNotes(Page(NoteFind(req[s].tenantFilter), req[s].query)))

\* getMyNotes: Note.find on {account, user, isDeleted: false}
myList(s) ==
  /\ req[s].pc = "myList"
  /\ UNCHANGED <<store, orders, tokens, now>>
  /\ Send(s, 200, WithNotes(Page(NoteFind([account |-> req[s].account,
                                           user |-> req[s].user]),
                                 req[s].query)))

\* PUT /notes/:id up to the lookup
updateNote(s, tok, id, body) ==
  /\ req[s].pc = "idle"
  /\ UNCHANGED <<store, orders, tokens, now>>
  /\ LET r == Bound(s, "updateNote", tok) IN
     IF notesRouter(tok) # 0 THEN Reject("updateNote", tok, notesRouter(tok))
     ELSE Enter(s, [r EXCEPT !.pc = "updFind", !.id = id, !.body = body,
                     !.tenantFilter =
                       requireOwnershipOrAdmin(r.tenantFilter, r.user, r.role)])

\* updateNote: Note.findOne, the handler's own ownership check, the title check
updFind(s) ==
  /\ req[s].pc = "updFind"
  /\ UNCHANGED <<store, orders, tokens, now>>
  /\ LET r == req[s]
         n == NoteFindOne(r.id, r.tenantFilter)
     IN IF n = 0 THEN Respond(s, 404)
        ELSE IF r.role # ROLES.ADMIN /\ notes[n].user # r.user
          THEN Respond(s, 403)
        ELSE IF r.body.title # UNDEF /\ trim(r.body.title) = <<>>
          THEN Respond(s, 400)
        ELSE Enter(s, SkipBlankTags([r EXCEPT !.pc = "tags", !.i = 1,
                                              !.doc = n]))

\* an update that stores the request's body as the whole note: what the body
\* leaves out is reset to the schema's default
noteUpdate_Replace(s) ==
  /\ req[s].pc = "noteUpdate"
  /\ UNCHANGED <<roles, accounts, users, tags, payments, subscriptions, orders, tokens, now>>
  /\ LET r == req[s]
         old == notes[r.doc]
         new == [old EXCEPT
                   !.title = IF r.body.title # UNDEF
                             THEN trim(r.body.title) ELSE old.title,
                   !.description =
                     IF Truthy(r.body.description)
                     THEN trim(r.body.description) ELSE <<>>,
                   !.tags = r.tagIds]
     IN /\ notes' = [notes EXCEPT ![r.doc] = new]
        /\ Send(s, 200, [NoResp EXCEPT !.notes = {r.doc},
                           !.tags = {new.tags[k] : k \in DOMAIN new.tags}])

\* updateNote: note.save() writes the paths the request set
noteUpdate(s) ==
  /\ req[s].pc = "noteUpdate"
  /\ UNCHANGED <<roles, accounts, users, tags, payments, subscriptions, orders, tokens, now>>
  /\ LET r == req[s]
         old == notes[r.doc]
         new == [old EXCEPT
                   !.title = IF r.body.title # UNDEF
                             THEN trim(r.body.title) ELSE old.title,
                   !.description =
                     IF r.body.description = UNDEF THEN old.description
                     ELSE IF Truthy(r.body.description)
                       THEN trim(r.body.description) ELSE <<>>,
                   !.tags = IF r.body.tags # <<UNDEF>>
                            THEN r.tagIds ELSE old.tags]
     IN /\ notes' = [notes EXCEPT ![r.doc] = new]
        /\ Send(s, 200, [NoResp EXCEPT !.notes = {r.doc},
                           !.tags = {new.tags[k] : k \in DOMAIN new.tags}])

\* DELETE /notes/:id up to the lookup
deleteNote(s, tok, id) ==
  /\ req[s].pc = "idle"
  /\ UNCHANGED <<store, orders, tokens, now>>
  /\ LET r == Bound(s, "deleteNote", tok) IN
     IF notesRouter(tok) # 0 THEN Reject("deleteNote", tok, notesRouter(tok))
     ELSE Enter(s, [r EXCEPT !.pc = "delFind", !.id = id,
                     !.tenantFilter =
                       requireOwnershipOrAdmin(r.tenantFilter, r.user, r.role)])

\* deleteNote: Note.findOne and the handler's own ownership check
delFind(s) ==
  /\ req[s].pc = "delFind"
  /\ UNCHANGED <<store, orders, tokens, now>>
  /\ LET r == req[s]
         n == NoteFindOne(r.id, r.tenantFilter)
     IN IF n = 0 THEN Respond(s, 404)
        ELSE IF r.role # ROLES.ADMIN /\ notes[n].user # r.user
          THEN Respond(s, 403)
        ELSE Enter(s, [r EXCEPT !.pc = "delSave", !.doc = n])

\* deleteNote: note.isDeleted = true; note.save()
delSave(s) ==
  /\ req[s].pc = "delSave"
  /\ UNCHANGED <<roles, accounts, users, tags, payments, subscriptions, orders, tokens, now>>
  /\ notes' = [notes EXCEPT ![req[s].doc].isDeleted = TRUE]
  /\ Enter(s, [req[s] EXCEPT !.pc = "delCount"])

\* decrementNoteCount without the guard on zero
decrementNoteCount_Unclamped(account, stored) == account.noteCount - 1

\* Account.decrementNoteCount on the request's copy of the account: the
\* stored count after it (no write when the copy's count is 0)
decrementNoteCount(account, stored) ==
  IF account.noteCount > 0 THEN account.noteCount - 1 ELSE stored

\* deleteNote: account.decrementNoteCount(), then 200
delCount(s) ==
  /\ req[s].pc = "delCount"
  /\ UNCHANGED <<roles, users, notes, tags, payments, subscriptions, orders, tokens, now>>
  /\ accounts' = [accounts EXCEPT ![req[s].account].noteCount =
         decrementNoteCount(req[s].snap, accounts[req[s].account].noteCount)]
  /\ Respond(s, 200)

\* ------------------------------------------------------ subscription

\* a Date path that is not set
NoDate == -1

\* new Date(Date.now() + 365 * 24 * 60 * 60 * 1000), kept as instant and days
SubscriptionDays == 365
endDate(t) == [from |-> t, days |-> SubscriptionDays]

\* document.save() writes a path only when the handler changed its value on
\* the copy it loaded
SavePath(loaded, value, stored) == IF value # loaded THEN value ELSE stored

\* crypto HMAC-SHA256 of orderId|paymentId under the gateway secret: the one
\* value, per pair, that only the gateway can produce
HMAC(orderId, paymentId) == <<orderId, paymentId>>

\* verifyPaymentSignature accepting any signature
verifyPaymentSignature_Any(orderId, paymentId, signature) == TRUE

\* verifyPaymentSignature
verifyPaymentSignature(orderId, paymentId, signature) ==
  HMAC(orderId, paymentId) = signature

ActiveSubscriptions(a) ==
  {k \in DOMAIN subscriptions :
     subscriptions[k].account = a /\ subscriptions[k].status = "active"}

\* a paymentId that is not the text of an ObjectId: casting it for the _id
\* path of a query throws CastError
MalformedId == -1

\* Payment.findOne without the status in its filter
PaymentFindOne_AnyStatus(id, account, orderId) ==
  IF /\ id \in DOMAIN payments
     /\ payments[id].account = account
     /\ payments[id].razorpayOrderId = orderId
  THEN id ELSE 0

\* Payment.findOne that also accepts a success Payment no Subscription is
\* linked to, so that a stopped verify-payment can be sent again
PaymentFindOne_Unlinked(id, account, orderId) ==
  IF /\ id \in DOMAIN payments
     /\ payments[id].account = account
     /\ payments[id].razorpayOrderId = orderId
     /\ \/ payments[id].status = PAYMENT_STATUS.PENDING
        \/ /\ payments[id].status = PAYMENT_STATUS.SUCCESS
           /\ payments[id].subscription = 0
  THEN id ELSE 0

\* Payment.findOne({_id, account, razorpayOrderId, status: pending})
PaymentFindOne(id, account, orderId) ==
  IF /\ id \in DOMAIN payments
     /\ payments[id].account = account
     /\ payments[id].razorpayOrderId = orderId
     /\ payments[id].status = PAYMENT_STATUS.PENDING
  THEN id ELSE 0

\* the subscription routes' chain behind authenticate
subscriptionChain(tok, requiredRole) ==
  IF authenticate(tok) # 0 THEN authenticate(tok)
  ELSE FirstFailure(<<checkAccountStatus(accounts[users[tok.userId].account]),
                      IF requiredRole = ROLES.ADMIN
                      THEN requireRole(RoleName(tok.userId), ROLES.ADMIN)
                      ELSE requireMember(RoleName(tok.userId))>>)

\* checkUpgradeEligibility without the check of the plan
checkUpgradeEligibility_AnyPlan(account) ==
  IF ~account.isActive \/ account.isDeleted THEN 403 ELSE 0

\* checkUpgradeEligibility on the account bound by authenticate
checkUpgradeEligibility(account) ==
  IF account.plan = SUBSCRIPTION_PLANS.PRO THEN 400
  ELSE IF ~account.isActive \/ account.isDeleted THEN 403
  ELSE 0

\* validateTenantSlug: the active account whose slug is the lower-cased
\* parameter, 0 when none
TenantBySlug(slug) ==
  IF \E a \in DOMAIN accounts :
       /\ accounts[a].slug = toLowerCase(slug)
       /\ accounts[a].isActive /\ ~accounts[a].isDeleted
  THEN CHOOSE a \in DOMAIN accounts :
       /\ accounts[a].slug = toLowerCase(slug)
       /\ accounts[a].isActive /\ ~accounts[a].isDeleted
  ELSE 0

\* POST /subscription/tenants/:slug/upgrade up to validateTenantSlug's lookup
upgradeSubscription(s, tok, slug) ==
  /\ req[s].pc = "idle"
  /\ UNCHANGED <<store, orders, tokens, now>>
  /\ IF authenticate(tok) # 0
     THEN Reject("upgradeSubscription", tok, authenticate(tok))
     ELSE Enter(s, [Bound(s, "upgradeSubscription", tok) EXCEPT
                      !.pc = "slug", !.slug = slug])

\* validateTenantSlug without the comparison of the tenant with the caller's
\* account
validateTenantSlug_AnyTenant(s) ==
  /\ req[s].pc = "slug"
  /\ UNCHANGED <<store, orders, tokens, now>>
  /\ LET r == req[s]
         tenant == TenantBySlug(r.slug)
     IN IF tenant = 0 THEN Respond(s, 404)
        ELSE LET gate == FirstFailure(<<checkAccountStatus(r.snap),
                                        requireRole(r.role, ROLES.ADMIN),
                                        checkUpgradeEligibility(r.snap)>>)
             IN IF gate # 0 THEN Respond(s, gate)
                ELSE Enter(s, [r EXCEPT !.pc = "order", !.doc = tenant])

\* validateTenantSlug, checkAccountStatus, requireAdmin,
\* checkUpgradeEligibility, then upgradeSubscription up to createOrder
validateTenantSlug(s) ==
  /\ req[s].pc = "slug"
  /\ UNCHANGED <<store, orders, tokens, now>>
  /\ LET r == req[s]
         tenant == TenantBySlug(r.slug)
     IN IF tenant = 0 THEN Respond(s, 404)
        ELSE IF r.account # tenant THEN Respond(s, 403)
        ELSE LET gate == FirstFailure(<<checkAccountStatus(r.snap),
                                        requireRole(r.role, ROLES.ADMIN),
                                        checkUpgradeEligibility(r.snap)>>)
             IN IF gate # 0 THEN Respond(s, gate)
                ELSE Enter(s, [r EXCEPT !.pc = "order", !.doc = tenant])

\* createOrder at the gateway: an order with a fresh id, or a failure (500)
createOrder(s) ==
  /\ req[s].pc = "order"
  /\ UNCHANGED <<store, tokens, now>>
  /\ \/ /\ orders' = orders + 1
        /\ Enter(s, [req[s] EXCEPT !.pc = "paymentSave",
                                   !.args.razorpay_order_id = orders + 1])
     \/ /\ UNCHANGED orders
        /\ Respond(s, 500)

\* upgradeSubscription: the pending Payment is saved, then 200
paymentSave(s) ==
  /\ req[s].pc = "paymentSave"
  /\ UNCHANGED <<roles, accounts, users, notes, tags, subscriptions, orders, tokens, now>>
  /\ payments' = Append(payments,
       [account |-> req[s].doc,
        razorpayOrderId |-> req[s].args.razorpay_order_id,
        razorpayPaymentId |-> 0, status |-> PAYMENT_STATUS.PENDING,
        subscription |-> 0, errorDescription |-> FALSE])
  /\ Send(s, 200, [NoResp EXCEPT !.payments = {Len(payments) + 1}])

\* POST /subscription/verify-payment up to the Payment lookup
verifyPaymentAndUpgrade(s, tok, args) ==
  /\ req[s].pc = "idle"
  /\ UNCHANGED <<store, orders, tokens, now>>
  /\ LET gate == subscriptionChain(tok, ROLES.ADMIN) IN
     IF gate # 0 THEN Reject("verifyPaymentAndUpgrade", tok, gate)
     ELSE IF \/ args.razorpay_order_id = 0 \/ args.razorpay_payment_id = 0
             \/ args.razorpay_signature = NoSignature \/ args.paymentId = 0
       THEN Reject("verifyPaymentAndUpgrade", tok, 400)
     ELSE Enter(s, [Bound(s, "verifyPaymentAndUpgrade", tok) EXCEPT
                      !.pc = "paymentFind", !.args = args])

\* Payment.findOne (a CastError is caught and answered 500), then the
\* signature check
paymentFind(s) ==
  /\ req[s].pc = "paymentFind"
  /\ UNCHANGED <<store, orders, tokens, now>>
  /\ LET r == req[s]
         p == PaymentFindOne(r.args.paymentId, r.account,
                             r.args.razorpay_order_id)
     IN IF r.args.paymentId = MalformedId THEN Respond(s, 500)
        ELSE IF p = 0 THEN Respond(s, 404)
        ELSE IF ~verifyPaymentSignature(r.args.razorpay_order_id,
                                        r.args.razorpay_payment_id,
                                        r.args.razorpay_signature)
          THEN Enter(s, [r EXCEPT !.pc = "paymentFailed", !.doc = p])
        ELSE Enter(s, [r EXCEPT !.pc = "paymentDetails", !.doc = p])

\* the forged-signature branch: the Payment is saved as failed, then 400
paymentFailed(s) ==
  /\ req[s].pc = "paymentFailed"
  /\ UNCHANGED <<roles, accounts, users, notes, tags, subscriptions, orders, tokens, now>>
  /\ payments' = [payments EXCEPT
                    ![req[s].doc].status = PAYMENT_STATUS.FAILED,
                    ![req[s].doc].errorDescription = TRUE]
  /\ Respond(s, 400)

\* getPaymentDetails whose failure is recorded on the Payment as failed
getPaymentDetails_Failed(s) ==
  /\ req[s].pc = "paymentDetails"
  /\ UNCHANGED <<roles, accounts, users, notes, tags, subscriptions, orders, tokens, now>>
  /\ \/ /\ UNCHANGED payments
        /\ Enter(s, [req[s] EXCEPT !.pc = "paymentSuccess"])
     \/ /\ payments' = [payments EXCEPT
                          ![req[s].doc].status = PAYMENT_STATUS.FAILED]
        /\ Respond(s, 500)

\* getPaymentDetails at the gateway: the payment, or a failure (500)
getPaymentDetails(s) ==
  /\ req[s].pc = "paymentDetails"
  /\ UNCHANGED <<store, orders, tokens, now>>
  /\ \/ Enter(s, [req[s] EXCEPT !.pc = "paymentSuccess"])
     \/ Respond(s, 500)

\* payment.save() that stores the gateway payment id and leaves the status
\* pending
paymentSuccess_Pending(s) ==
  /\ req[s].pc = "paymentSuccess"
  /\ UNCHANGED <<roles, accounts, users, notes, tags, subscriptions, orders, tokens, now>>
  /\ payments' = [payments EXCEPT
        ![req[s].doc].razorpayPaymentId = req[s].args.razorpay_payment_id]
  /\ Enter(s, [req[s] EXCEPT !.pc = "subscriptionFind"])

\* payment.save() with the gateway payment id and status success; the unique
\* sparse index on razorpayPaymentId makes a second use of an id throw (500)
paymentSuccess(s) ==
  /\ req[s].pc = "paymentSuccess"
  /\ UNCHANGED <<roles, accounts, users, notes, tags, subscriptions, orders, tokens, now>>
  /\ LET r == req[s] IN
     IF \E k \in DOMAIN payments :
          k # r.doc /\ payments[k].razorpayPaymentId = r.args.razorpay_payment_id
     THEN /\ UNCHANGED payments
          /\ Respond(s, 500)
     ELSE /\ payments' = [payments EXCEPT
               ![r.doc].razorpayPaymentId = r.args.razorpay_payment_id,
               ![r.doc].status = PAYMENT_STATUS.SUCCESS]
          /\ Enter(s, [r EXCEPT !.pc = "subscriptionFind"])

\* verifyPaymentAndUpgrade going on to create without looking for an active
\* subscription
subscriptionFind_Skip(s) ==
  /\ req[s].pc = "subscriptionFind"
  /\ UNCHANGED <<store, orders, tokens, now>>
  /\ Enter(s, [req[s] EXCEPT !.pc = "subscriptionCreate"])

\* Subscription.findOne({account, status: active})
subscriptionFind(s) ==
  /\ req[s].pc = "subscriptionFind"
  /\ UNCHANGED <<store, orders, tokens, now>>
  /\ \/ /\ ActiveSubscriptions(req[s].account) = {}
        /\ Enter(s, [req[s] EXCEPT !.pc = "subscriptionCreate"])
     \/ \E k \in ActiveSubscriptions(req[s].account) :
          Enter(s, [req[s] EXCEPT !.pc = "existingCancel", !.sub = k])

\* existingSubscription.save(): cancelled, with cancelledAt
existingCancel(s) ==
  /\ req[s].pc = "existingCancel"
  /\ UNCHANGED <<roles, accounts, users, notes, tags, payments, orders, tokens, now>>
  /\ subscriptions' = [subscriptions EXCEPT
                         ![req[s].sub].status = "cancelled",
                         ![req[s].sub].cancelledAt = now]
  /\ Enter(s, [req[s] EXCEPT !.pc = "subscriptionCreate"])

\* the new pro Subscription is saved
subscriptionCreate(s) ==
  /\ req[s].pc = "subscriptionCreate"
  /\ UNCHANGED <<roles, accounts, users, notes, tags, payments, orders, tokens, now>>
  /\ subscriptions' = Append(subscriptions,
       [account |-> req[s].account, plan |-> SUBSCRIPTION_PLANS.PRO,
        status |-> "active", startDate |-> now, endDate |-> endDate(now),
        cancelledAt |-> NoDate])
  /\ Enter(s, [req[s] EXCEPT !.pc = "paymentLink",
                             !.sub = Len(subscriptions) + 1])

\* payment.subscription = subscription._id; payment.save()
paymentLink(s) ==
  /\ req[s].pc = "paymentLink"
  /\ UNCHANGED <<roles, accounts, users, notes, tags, subscriptions, orders, tokens, now>>
  /\ payments' = [payments EXCEPT ![req[s].doc].subscription = req[s].sub]
  /\ Enter(s, [req[s] EXCEPT !.pc = "upgradeToPro"])

\* upgradeToPro changing the plan only
upgradeToPro_PlanOnly(account) ==
  [account EXCEPT !.plan = SUBSCRIPTION_PLANS.PRO]

\* Account.upgradeToPro: the plan and limit it saves
upgradeToPro(account) ==
  [account EXCEPT !.plan = SUBSCRIPTION_PLANS.PRO, !.limit = ProLimit]

\* account.upgradeToPro() saves plan and limit
accountUpgrade(s) ==
  /\ req[s].pc = "upgradeToPro"
  /\ UNCHANGED <<roles, users, notes, tags, payments, subscriptions, orders, tokens, now>>
  /\ LET r == req[s]
         new == upgradeToPro(r.snap)
     IN /\ accounts' = [accounts EXCEPT
               ![r.account].plan = SavePath(r.snap.plan, new.plan, @),
               ![r.account].limit = SavePath(r.snap.limit, new.limit, @)]
        /\ Enter(s, [r EXCEPT !.pc = "accountSubscription", !.snap = new])

\* account.currentSubscription = subscription._id; account.save(); then 200
accountSubscription(s) ==
  /\ req[s].pc = "accountSubscription"
  /\ UNCHANGED <<roles, users, notes, tags, payments, subscriptions, orders, tokens, now>>
  /\ accounts' = [accounts EXCEPT
       ![req[s].account].currentSubscription =
          SavePath(req[s].snap.currentSubscription, req[s].sub, @)]
  /\ Send(s, 200, [NoResp EXCEPT !.payments = {req[s].doc},
                                 !.subscriptions = {req[s].sub}])

\* the points of verifyPaymentAndUpgrade behind the save of the Payment as
\* success: each is an await on the store
BehindSuccess ==
  {"subscriptionFind", "existingCancel", "subscriptionCreate", "paymentLink",
   "upgradeToPro", "accountSubscription"}

\* verifyPaymentAndUpgrade stops behind the save of the Payment as success:
\* the awaited store call throws and the catch answers 500 (a crash of the
\* process leaves the same documents and sends nothing); what was saved stays
stop(s) ==
  /\ req[s].op = "verifyPaymentAndUpgrade"
  /\ req[s].pc \in BehindSuccess
  /\ UNCHANGED <<store, orders, tokens, now>>
  /\ Respond(s, 500)

\* POST /subscription/cancel up to the Subscription lookup
cancelSubscription(s, tok) ==
  /\ req[s].pc = "idle"
  /\ UNCHANGED <<store, orders, tokens, now>>
  /\ LET gate == subscriptionChain(tok, ROLES.ADMIN) IN
     IF gate # 0 THEN Reject("cancelSubscription", tok, gate)
     ELSE Enter(s, [Bound(s, "cancelSubscription", tok) EXCEPT
                      !.pc = "cancelFind"])

\* cancelSubscription: Subscription.findOne({account, status: active})
cancelFind(s) ==
  /\ req[s].pc = "cancelFind"
  /\ UNCHANGED <<store, orders, tokens, now>>
  /\ \/ /\ ActiveSubscriptions(req[s].account) = {}
        /\ Respond(s, 404)
     \/ \E k \in ActiveSubscriptions(req[s].account) :
          Enter(s, [req[s] EXCEPT !.pc = "cancel", !.sub = k])

\* cancel that stamps cancelledAt and leaves the status active
cancel_Stamp(s) ==
  /\ req[s].pc = "cancel"
  /\ UNCHANGED <<roles, accounts, users, notes, tags, payments, orders, tokens, now>>
  /\ subscriptions' = [subscriptions EXCEPT ![req[s].sub].cancelledAt = now]
  /\ Enter(s, [req[s] EXCEPT !.pc = "downgrade"])

\* subscriptionSchema.methods.cancel
cancel(s) ==
  /\ req[s].pc = "cancel"
  /\ UNCHANGED <<roles, accounts, users, notes, tags, payments, orders, tokens, now>>
  /\ subscriptions' = [subscriptions EXCEPT
                         ![req[s].sub].status = "cancelled",
                         ![req[s].sub].cancelledAt = now]
  /\ Enter(s, [req[s] EXCEPT !.pc = "downgrade"])

\* cancelSubscription answering without touching the account
downgrade_Grace(s) ==
  /\ req[s].pc = "downgrade"
  /\ UNCHANGED <<store, orders, tokens, now>>
  /\ Send(s, 200, [NoResp EXCEPT !.subscriptions = {req[s].sub}])

\* cancelSubscription saving the plan and leaving the limit
downgrade_PlanOnly(s) ==
  /\ req[s].pc = "downgrade"
  /\ UNCHANGED <<roles, users, notes, tags, payments, subscriptions, orders, tokens, now>>
  /\ accounts' = [accounts EXCEPT
       ![req[s].account].plan =
          SavePath(req[s].snap.plan, SUBSCRIPTION_PLANS.FREE, @),
       ![req[s].account].currentSubscription =
          SavePath(req[s].snap.currentSubscription, 0, @)]
  /\ Send(s, 200, [NoResp EXCEPT !.subscriptions = {req[s].sub}])

\* cancelSubscription: the account is saved as free, then 200
downgrade(s) ==
  /\ req[s].pc = "downgrade"
  /\ UNCHANGED <<roles, users, notes, tags, payments, subscriptions, orders, tokens, now>>
  /\ accounts' = [accounts EXCEPT
       ![req[s].account].plan =
          SavePath(req[s].snap.plan, SUBSCRIPTION_PLANS.FREE, @),
       ![req[s].account].limit = SavePath(req[s].snap.limit, CancelLimit, @),
       ![req[s].account].currentSubscription =
          SavePath(req[s].snap.currentSubscription, 0, @)]
  /\ Send(s, 200, [NoResp EXCEPT !.subscriptions = {req[s].sub}])

\* GET /subscription up to the Subscription lookup
getSubscription(s, tok) ==
  /\ req[s].pc = "idle"
  /\ UNCHANGED <<store, orders, tokens, now>>
  /\ LET gate == subscriptionChain(tok, ROLES.MEMBER) IN
     IF gate # 0 THEN Reject("getSubscription", tok, gate)
     ELSE Enter(s, [Bound(s, "getSubscription", tok) EXCEPT
                      !.pc = "subscriptionGet",
                      !.subscriptionInfo =
                         attachSubscriptionInfo(accounts[users[tok.userId].account])])

\* getSubscription: Subscription.findOne({account, status: active})
subscriptionGet(s) ==
  /\ req[s].pc = "subscriptionGet"
  /\ UNCHANGED <<store, orders, tokens, now>>
  /\ \/ /\ ActiveSubscriptions(req[s].account) = {}
        /\ Send(s, 200, [NoResp EXCEPT
                           !.canCreateNote = canCreateNote(req[s].snap)])
     \/ \E k \in ActiveSubscriptions(req[s].account) :
          Send(s, 200, [NoResp EXCEPT
                          !.subscriptions = {k},
                          !.canCreateNote = canCreateNote(req[s].snap)])

\* GET /subscription/payments up to the query
getPaymentHistory(s, tok, query) ==
  /\ req[s].pc = "idle"
  /\ UNCHANGED <<store, orders, tokens, now>>
  /\ LET gate == subscriptionChain(tok, ROLES.MEMBER) IN
     IF gate # 0 THEN Reject("getPaymentHistory", tok, gate)
     ELSE Enter(s, [Bound(s, "getPaymentHistory", tok) EXCEPT
                      !.pc = "paymentList", !.query = query])

\* getPaymentHistory: Payment.find({account}) with its subscriptions
paymentList(s) ==
  /\ req[s].pc = "paymentList"
  /\ UNCHANGED <<store, orders, tokens, now>>
  /\ LET ps == Page({k \in DOMAIN payments :
                        payments[k].account = req[s].account}, req[s].query)
     IN Send(s, 200, [NoResp EXCEPT
          !.payments = ps,
          !.subscriptions = {payments[k].subscription : k \in ps} \ {0}])

\* -------------------------------------------------------------- auth

\* POST /auth/login: the local strategy's lookup and password check
login(s, u, password) ==
  /\ req[s].pc = "idle"
  /\ UNCHANGED <<store, orders, tokens, now>>
  /\ LET tok == generateToken(u, now) IN
     IF u \notin DOMAIN users \/ ~users[u].isActive \/ users[u].isDeleted
       THEN Reject("login", tok, 401)
     ELSE IF ~accounts[users[u].account].isActive
             \/ accounts[users[u].account].isDeleted
       THEN Reject("login", tok, 401)
     ELSE IF ~comparePassword(password, users[u].password)
       THEN Reject("login", tok, 401)
     ELSE Enter(s, [IdleReq EXCEPT !.pc = "token", !.op = "login", !.user = u,
                                   !.account = users[u].account])

\* login: once lastLogin is saved, generateToken signs at the current clock
token(s) ==
  /\ req[s].pc = "token"
  /\ UNCHANGED <<store, orders, now>>
  /\ tokens' = tokens \cup {generateToken(req[s].user, now)}
  /\ Respond(s, 200)

\* POST /auth/logout: authenticate, then the handler stamps new Date()
logout(s, tok) ==
  /\ req[s].pc = "idle"
  /\ UNCHANGED <<store, orders, tokens, now>>
  /\ IF authenticate(tok) # 0 THEN Reject("logout", tok, authenticate(tok))
     ELSE Enter(s, [Bound(s, "logout", tok) EXCEPT
                      !.pc = "userSave", !.stamp = now])

\* GET /auth/profile: the chain, then the handler answers from req.user
getProfile(s, tok) ==
  /\ req[s].pc = "idle"
  /\ UNCHANGED <<store, orders, tokens, now, req, overlapped>>
  /\ LET gate == IF authenticate(tok) # 0 THEN authenticate(tok)
                 ELSE checkAccountStatus(accounts[users[tok.userId].account])
     IN resp' = [NoResp EXCEPT !.op = "getProfile", !.user = tok.userId,
                               !.status = IF gate # 0 THEN gate ELSE 200]

\* POST /auth/change-password: the chain and the required-field check
changePassword(s, tok, passwords) ==
  /\ req[s].pc = "idle"
  /\ UNCHANGED <<store, orders, tokens, now>>
  /\ LET gate == IF authenticate(tok) # 0 THEN authenticate(tok)
                 ELSE checkAccountStatus(accounts[users[tok.userId].account])
     IN IF gate # 0 THEN Reject("changePassword", tok, gate)
        ELSE IF passwords.currentPassword = "" \/ passwords.newPassword = ""
          THEN Reject("changePassword", tok, 400)
        ELSE Enter(s, [Bound(s, "changePassword", tok) EXCEPT
                         !.pc = "compare", !.passwords = passwords])

\* changePassword without the comparison of the new password with the old
compare_AnyNew(s) ==
  /\ req[s].pc = "compare"
  /\ UNCHANGED <<store, orders, tokens, now>>
  /\ LET r == req[s] IN
     IF ~comparePassword(r.passwords.currentPassword, r.loaded.password)
       THEN Respond(s, 400)
     ELSE Enter(s, [r EXCEPT !.pc = "userSave", !.stamp = now])

\* changePassword: the two bcrypt comparisons against the loaded user's hash,
\* then the handler stamps new Date()
compare(s) ==
  /\ req[s].pc = "compare"
  /\ UNCHANGED <<store, orders, tokens, now>>
  /\ LET r == req[s] IN
     IF ~comparePassword(r.passwords.currentPassword, r.loaded.password)
       THEN Respond(s, 400)
     ELSE IF comparePassword(r.passwords.newPassword, r.loaded.password)
       THEN Respond(s, 400)
     ELSE Enter(s, [r EXCEPT !.pc = "userSave", !.stamp = now])

\* user.save() of logout and changePassword, then 200; a new password
\* shorter than the schema's minlength fails validation (500)
userSave(s) ==
  /\ req[s].pc = "userSave"
  /\ UNCHANGED <<roles, accounts, notes, tags, payments, subscriptions, orders, tokens, now>>
  /\ LET r == req[s] IN
     IF r.op = "changePassword" /\ ~validPassword(r.passwords.newPassword)
     THEN /\ UNCHANGED users
          /\ Respond(s, 500)
     ELSE /\ users' = [users EXCEPT
               ![r.user].tokensInvalidBefore =
                  SavePath(r.loaded.tokensInvalidBefore, r.stamp, @),
               ![r.user].password =
                  IF r.op = "changePassword"
                  THEN hashPassword(r.passwords.newPassword) ELSE @]
          /\ Respond(s, 200)

\* the decimal text of the counter
Digits == <<"1", "2", "3", "4", "5", "6", "7", "8", "9">>

\* the characters slugify keeps in strict mode: letters, digits, white space
AlphaNumeric ==
  {"a", "b", "m", "n", "w", "A", "W"} \cup {Digits[k] : k \in DOMAIN Digits}

\* slugify: a "-" becomes a space, then every character that is neither
\* alphanumeric nor a space is dropped
RECURSIVE Strip(_)
Strip(name) ==
  IF name = <<>> THEN <<>>
  ELSE IF Head(name) \in {"-", " "} THEN <<" ">> \o Strip(Tail(name))
  ELSE IF Head(name) \in AlphaNumeric THEN <<Head(name)>> \o Strip(Tail(name))
  ELSE Strip(Tail(name))

\* slugify: every run of spaces becomes one "-"
RECURSIVE Hyphenate(_)
Hyphenate(name) ==
  IF name = <<>> THEN <<>>
  ELSE IF Head(name) = " "
    THEN <<"-">> \o Hyphenate(TrimLeft(name))
  ELSE <<Head(name)>> \o Hyphenate(Tail(name))

\* generateSlug(name): slugify with lower and strict
generateSlug(name) == toLowerCase(Hyphenate(trim(Strip(name))))

\* `${baseSlug}-${counter}`
Suffixed(baseSlug, counter) == baseSlug \o <<"-", Digits[counter]>>

\* Account.findOne({slug}); 0 when none
AccountFindOne(slug) ==
  IF \E a \in DOMAIN accounts : accounts[a].slug = slug
  THEN CHOOSE a \in DOMAIN accounts : accounts[a].slug = slug
  ELSE 0

\* POST /auth/register: the required-field check
register(s, body) ==
  /\ req[s].pc = "idle"
  /\ UNCHANGED <<store, orders, tokens, now>>
  /\ IF \/ ~Truthy(body.email) \/ body.password = ""
        \/ ~Truthy(body.name) \/ ~Truthy(body.accountName)
     THEN Reject("register", NoToken, 400)
     ELSE Enter(s, [IdleReq EXCEPT !.pc = "regFind", !.op = "register",
                                   !.reg = body])

\* register going on without looking the email up
regFind_NoLookup(s) ==
  /\ req[s].pc = "regFind"
  /\ UNCHANGED <<store, orders, tokens, now>>
  /\ Enter(s, [req[s] EXCEPT !.pc = "slugFind", !.i = 1,
                             !.slug = generateSlug(req[s].reg.accountName)])

\* register: User.findOne({email, isDeleted: false}) over all accounts, then
\* the base slug
regFind(s) ==
  /\ req[s].pc = "regFind"
  /\ UNCHANGED <<store, orders, tokens, now>>
  /\ IF \E u \in DOMAIN users :
          users[u].email = toLowerCase(req[s].reg.email) /\ ~users[u].isDeleted
     THEN Respond(s, 409)
     ELSE Enter(s, [req[s] EXCEPT !.pc = "slugFind", !.i = 1,
                                  !.slug = generateSlug(req[s].reg.accountName)])

\* register: one turn of while (await Account.findOne({ slug }))
slugFind(s) ==
  /\ req[s].pc = "slugFind"
  /\ UNCHANGED <<store, orders, tokens, now>>
  /\ LET r == req[s] IN
     IF AccountFindOne(r.slug) # 0
     THEN Enter(s, [r EXCEPT
            !.slug = Suffixed(generateSlug(r.reg.accountName), r.i),
            !.i = r.i + 1])
     ELSE Enter(s, [r EXCEPT !.pc = "regAccount"])

\* account.save() on a collection without the unique index on slug
regAccount_NoIndex(s) ==
  /\ req[s].pc = "regAccount"
  /\ UNCHANGED <<roles, users, notes, tags, payments, subscriptions, orders, tokens, now>>
  /\ LET r == req[s]
         id == Cardinality(DOMAIN accounts) + 1
     IN IF r.slug = <<>>
        THEN /\ UNCHANGED accounts
             /\ Respond(s, 500)
        ELSE /\ accounts' = accounts @@
                  (id :> [NewAccount(r.slug) EXCEPT
                            !.base = generateSlug(r.reg.accountName)])
             /\ Enter(s, [r EXCEPT !.pc = "regRole", !.account = id])

\* register: account.save(); an empty slug fails validation and a slug that
\* an account has violates the unique index (500)
regAccount(s) ==
  /\ req[s].pc = "regAccount"
  /\ UNCHANGED <<roles, users, notes, tags, payments, subscriptions, orders, tokens, now>>
  /\ LET r == req[s]
         id == Cardinality(DOMAIN accounts) + 1
     IN IF r.slug = <<>> \/ AccountFindOne(r.slug) # 0
        THEN /\ UNCHANGED accounts
             /\ Respond(s, 500)
        ELSE /\ accounts' = accounts @@
                  (id :> [NewAccount(r.slug) EXCEPT
                            !.base = generateSlug(r.reg.accountName)])
             /\ Enter(s, [r EXCEPT !.pc = "regRole", !.account = id])

\* register: adminRole.save()
regRole(s) ==
  /\ req[s].pc = "regRole"
  /\ UNCHANGED <<accounts, users, notes, tags, payments, subscriptions, orders, tokens, now>>
  /\ roles' = Append(roles, NewRole(req[s].account, ROLES.ADMIN))
  /\ Enter(s, [req[s] EXCEPT !.pc = "regUser", !.doc = Len(roles) + 1])

\* register: user.save(), then 201; a password shorter than the schema's
\* minlength fails validation (500)
regUser(s) ==
  /\ req[s].pc = "regUser"
  /\ UNCHANGED <<roles, accounts, notes, tags, payments, subscriptions, orders, tokens, now>>
  /\ LET r == req[s]
         id == Cardinality(DOMAIN users) + 1
     IN IF ~validPassword(r.reg.password)
        THEN /\ UNCHANGED users
             /\ Respond(s, 500)
        ELSE /\ users' = users @@
                  (id :> [NewUser(r.account, toLowerCase(r.reg.email), r.doc, now)
                            EXCEPT !.password = hashPassword(r.reg.password)])
             /\ Respond(s, 201)

\* POST /auth/invite: the chain and the handler's checks of the body, up to
\* the lookup of the email
inviteUser(s, tok, body) ==
  /\ req[s].pc = "idle"
  /\ UNCHANGED <<store, orders, tokens, now>>
  /\ LET gate == subscriptionChain(tok, ROLES.ADMIN)
         role == IF body.role = "undefined" THEN ROLES.MEMBER ELSE body.role
     IN IF gate # 0 THEN Reject("inviteUser", tok, gate)
        ELSE IF ~Truthy(body.email) \/ ~Truthy(body.name)
          THEN Reject("inviteUser", tok, 400)
        ELSE IF role \notin {ROLES.ADMIN, ROLES.MEMBER}
          THEN Reject("inviteUser", tok, 400)
        ELSE Enter(s, [Bound(s, "inviteUser", tok) EXCEPT
                         !.pc = "inviteFind",
                         !.invite = [body EXCEPT !.role = role]])

\* User.findOne({email, account, isDeleted: false}); 0 when none
UserFindOne(email, account) ==
  IF \E u \in DOMAIN users :
       users[u].email = email /\ users[u].account = account /\ ~users[u].isDeleted
  THEN CHOOSE u \in DOMAIN users :
       users[u].email = email /\ users[u].account = account /\ ~users[u].isDeleted
  ELSE 0

\* Role.findOne({account, roleName}); 0 when none
RoleFindOne(account, roleName) ==
  IF \E k \in DOMAIN roles :
       roles[k].account = account /\ roles[k].roleName = roleName
  THEN CHOOSE k \in DOMAIN roles :
       roles[k].account = account /\ roles[k].roleName = roleName
  ELSE 0

\* inviteUser: the email, lower-cased, is looked up in the caller's account
inviteFind(s) ==
  /\ req[s].pc = "inviteFind"
  /\ UNCHANGED <<store, orders, tokens, now>>
  /\ IF UserFindOne(toLowerCase(req[s].invite.email), req[s].account) # 0
     THEN Respond(s, 409)
     ELSE Enter(s, [req[s] EXCEPT !.pc = "roleFind"])

\* inviteUser: find the account's Role of that name
roleFind(s) ==
  /\ req[s].pc = "roleFind"
  /\ UNCHANGED <<store, orders, tokens, now>>
  /\ LET k == RoleFindOne(req[s].account, req[s].invite.role) IN
     IF k # 0 THEN Enter(s, [req[s] EXCEPT !.pc = "inviteSave", !.doc = k])
     ELSE Enter(s, [req[s] EXCEPT !.pc = "roleSave"])

\* inviteUser: the Role is created
roleSave(s) ==
  /\ req[s].pc = "roleSave"
  /\ UNCHANGED <<accounts, users, notes, tags, payments, subscriptions, orders, tokens, now>>
  /\ roles' = Append(roles, NewRole(req[s].account, req[s].invite.role))
  /\ Enter(s, [req[s] EXCEPT !.pc = "inviteSave", !.doc = Len(roles) + 1])

\* the unique index on (email, account) of the users collection
EmailTaken(email, account) ==
  \E u \in DOMAIN users :
    users[u].email = trim(toLowerCase(email)) /\ users[u].account = account

\* inviteUser: the new User is saved inactive, then 201; a duplicate
\* (email, account) makes the save throw (500)
inviteSave(s) ==
  /\ req[s].pc = "inviteSave"
  /\ UNCHANGED <<roles, accounts, notes, tags, payments, subscriptions, orders, tokens, now>>
  /\ LET r == req[s]
         id == Cardinality(DOMAIN users) + 1
     IN IF EmailTaken(r.invite.email, r.account)
        THEN /\ UNCHANGED users
             /\ Respond(s, 500)
        ELSE /\ users' = users @@
                  (id :> [NewUser(r.account, toLowerCase(r.invite.email), r.doc, now)
                            EXCEPT !.isActive = FALSE])
             /\ Respond(s, 201)

\* the clock moves on to a later instant
Tick(t) ==
  /\ t > now
  /\ now' = t
  /\ UNCHANGED <<store, orders, tokens, req, resp, overlapped>>

\* ------------------------------------------------ request inputs

NoteIds == 1..MaxNotes

CreateBodies ==
  {[title |-> t, description |-> UNDEF, tags |-> <<UNDEF>>] :
     t \in {UNDEF, <<" ", "a">>}}

UpdateBodies ==
  {[title |-> <<"b", " ">>, description |-> UNDEF,
    tags |-> << <<" ", "W">> >>]}

PlainBody == [title |-> <<"a">>, description |-> UNDEF, tags |-> <<UNDEF>>]

TaggedBody == [title |-> <<"a">>, description |-> UNDEF, tags |-> << <<"w">> >>]

TokensOf(us) == {tok \in tokens : tok.userId \in us}

UsersOf(a) == {u \in DOMAIN users : users[u].account = a}

\* payment ids the gateway hands to the client
GatewayPaymentIds == {1, 2}

\* a signature the client made up
Forged == <<0, 0>>

\* verify-payment bodies: every combination of known ids, with the gateway's
\* signature or a forged one, a body whose paymentId is not an ObjectId, and
\* the body with every field missing
VerifyArgs(paymentIds) ==
  {[razorpay_order_id |-> o, razorpay_payment_id |-> p,
    razorpay_signature |-> IF genuine THEN HMAC(o, p) ELSE Forged,
    paymentId |-> k] :
     o \in paymentIds, p \in GatewayPaymentIds,
     genuine \in BOOLEAN, k \in paymentIds}
  \cup {[razorpay_order_id |-> o, razorpay_payment_id |-> o,
          razorpay_signature |-> HMAC(o, o), paymentId |-> MalformedId] :
           o \in paymentIds}
  \cup {NoArgs}

\* verify-payment bodies as the client of a completed checkout sends them:
\* the gateway's payment of that order, with the gateway's signature
CheckoutArgs(paymentIds) ==
  {[razorpay_order_id |-> payments[k].razorpayOrderId,
    razorpay_payment_id |-> payments[k].razorpayOrderId,
    razorpay_signature |-> HMAC(payments[k].razorpayOrderId,
                                payments[k].razorpayOrderId),
    paymentId |-> k] :
     k \in paymentIds \cap DOMAIN payments}

\* the :slug of the upgrade route: the two accounts' slugs, the first one in
\* upper case, and a slug no account has
Slugs == {<<"a">>, <<"b">>, <<"A">>, <<"n">>}

\* ------------------------------------------------ specifications

\* the steps of requests in flight on the notes routes
NotesStep(s) ==
  \/ tagFindOne(s) \/ tagCreate(s) \/ noteSave(s) \/ noteCount(s)
  \/ getFind(s) \/ list(s) \/ myList(s)
  \/ updFind(s) \/ noteUpdate(s)
  \/ delFind(s) \/ delSave(s) \/ delCount(s)

\* the notes routes taking up a request
NotesRequest(s, toks, max, creates, updates) ==
  \/ /\ Len(notes) + Cardinality(InFlight("createNote")) < max
     /\ \E tok \in toks, body \in creates : createNote(s, tok, body)
  \/ \E tok \in toks, id \in 1..max : getNoteById(s, tok, id)
  \/ \E tok \in toks : getNotes(s, tok, DefaultQuery)
  \/ \E tok \in toks : getMyNotes(s, tok, DefaultQuery)
  \/ \E tok \in toks, id \in 1..max, body \in updates :
       updateNote(s, tok, id, body)
  \/ \E tok \in toks, id \in 1..max : deleteNote(s, tok, id)

\* create and delete requests only
CreateDelete(s, toks, max) ==
  \/ /\ Len(notes) + Cardinality(InFlight("createNote")) < max
     /\ \E tok \in toks : createNote(s, tok, PlainBody)
  \/ \E tok \in toks, id \in 1..max : deleteNote(s, tok, id)

CreateDeleteStep(s) ==
  \/ noteSave(s) \/ noteCount(s) \/ delFind(s) \/ delSave(s) \/ delCount(s)

\* the steps of upgrade, verify-payment (genuine signature) and cancel
\* requests in flight
PlanChangeStep(s) ==
  \/ validateTenantSlug(s) \/ createOrder(s) \/ paymentSave(s)
  \/ paymentFind(s) \/ getPaymentDetails(s)
  \/ paymentSuccess(s) \/ subscriptionFind(s) \/ existingCancel(s)
  \/ subscriptionCreate(s) \/ paymentLink(s) \/ accountUpgrade(s)
  \/ accountSubscription(s)
  \/ cancelFind(s) \/ cancel(s) \/ downgrade(s)

\* the steps of requests in flight on the subscription routes
SubscriptionStep(s) ==
  \/ PlanChangeStep(s)
  \/ paymentFailed(s) \/ subscriptionGet(s) \/ paymentList(s)

\* the subscription routes taking up a request
SubscriptionRequest(s, toks, slugs, argss) ==
  \/ /\ Len(payments) + Cardinality(InFlight("upgradeSubscription")) < MaxPayments
     /\ \E tok \in toks, slug \in slugs : upgradeSubscription(s, tok, slug)
  \/ \E tok \in toks, args \in argss : verifyPaymentAndUpgrade(s, tok, args)
  \/ \E tok \in toks : cancelSubscription(s, tok)
  \/ \E tok \in toks : getSubscription(s, tok)
  \/ \E tok \in toks : getPaymentHistory(s, tok, DefaultQuery)

\* notes requests of every user, one at a time
NextNotes ==
  \/ NotesRequest(1, tokens, MaxNotes, CreateBodies, UpdateBodies)
  \/ NotesStep(1)

SpecNotes == Init /\ [][NextNotes]_vars

\* bodies whose tag lists name one tag in several spellings
TagBodies ==
  {[title |-> <<"a">>, description |-> UNDEF, tags |-> tl] :
     tl \in {<< <<"W">>, <<" ", "w", " ">>, <<"w">> >>,
             << <<"w">> >>,
             << <<"m">>, <<" ">>, <<"W">> >>}}

\* create requests of every user, one at a time
NextTags ==
  \/ /\ Len(notes) < MaxNotes
     /\ \E tok \in tokens, body \in TagBodies : createNote(1, tok, body)
  \/ tagFindOne(1) \/ tagCreate(1) \/ noteSave(1) \/ noteCount(1)

SpecTags == Init /\ [][NextTags]_vars

\* a create body that sets every field
FullBody ==
  [title |-> <<"a">>, description |-> <<"d">>, tags |-> << <<"w">> >>]

\* update bodies that provide none, one or all of title, description and
\* tags, with values that differ from FullBody's, the empty description and
\* tag list, and a blank title
PartialBodies ==
  {NoBody,
   [NoBody EXCEPT !.title = <<"b", " ">>],
   [NoBody EXCEPT !.title = <<" ">>],
   [NoBody EXCEPT !.description = <<"e">>],
   [NoBody EXCEPT !.description = <<>>],
   [NoBody EXCEPT !.tags = << <<"m">> >>],
   [NoBody EXCEPT !.tags = <<>>],
   [title |-> <<"b">>, description |-> <<"e">>, tags |-> << <<"m">> >>]}

\* create, update and delete requests of account 1's users, one at a time
NextUpdate ==
  \/ /\ Len(notes) < MaxNotes
     /\ \E tok \in TokensOf(UsersOf(1)) : createNote(1, tok, FullBody)
  \/ \E tok \in TokensOf(UsersOf(1)), id \in 1..MaxNotes, body \in PartialBodies :
       updateNote(1, tok, id, body)
  \/ \E tok \in TokensOf({1}), id \in 1..MaxNotes : deleteNote(1, tok, id)
  \/ tagFindOne(1) \/ tagCreate(1) \/ noteSave(1) \/ noteCount(1)
  \/ updFind(1) \/ noteUpdate(1)
  \/ delFind(1) \/ delSave(1) \/ delCount(1)

SpecUpdate == Init /\ [][NextUpdate]_vars

\* the numbers of notes the listed account holds: none, one, as many as the
\* cap on a page, and one more
ListSizes == {0, 1, PageCap, PageCap + 1}

\* page and limit as the query string gives them: the first pages, and
\* limits up to one above the cap
Queries ==
  {[page |-> p, limit |-> l] : p \in 1..3, l \in {1, 10, PageCap, PageCap + 1}}

\* Account 1 after its admin's verified upgrade (one success Payment, one
\* active Subscription, plan pro) and the creation of some number of notes by
\* the admin; the rest as in Init
InitPage ==
  /\ \E size \in ListSizes :
       /\ accounts = (1 :> [upgradeToPro(NewAccount(<<"a">>)) EXCEPT
                              !.currentSubscription = 1, !.noteCount = size]
                      @@ 2 :> NewAccount(<<"b">>))
       /\ notes = [k \in 1..size |->
                     [account |-> 1, user |-> 1, title |-> <<"a">>,
                      description |-> <<>>, tags |-> <<>>, isDeleted |-> FALSE]]
  /\ roles = <<NewRole(1, ROLES.ADMIN), NewRole(1, ROLES.MEMBER),
               NewRole(2, ROLES.ADMIN)>>
  /\ users = (1 :> NewUser(1, <<"a">>, 1, 0) @@ 2 :> NewUser(1, <<"m">>, 2, 0)
              @@ 3 :> NewUser(2, <<"b">>, 3, 0))
  /\ tags = <<>>
  /\ payments = <<[account |-> 1, razorpayOrderId |-> 1, razorpayPaymentId |-> 1,
                   status |-> PAYMENT_STATUS.SUCCESS, subscription |-> 1,
                   errorDescription |-> FALSE]>>
  /\ subscriptions = <<[account |-> 1, plan |-> SUBSCRIPTION_PLANS.PRO,
                        status |-> "active", startDate |-> 1,
                        endDate |-> endDate(1), cancelledAt |-> NoDate]>>
  /\ orders = 1
  /\ now = 1
  /\ tokens = {generateToken(u, 1) : u \in UserIds}
  /\ req = [s \in Slots |-> IdleReq]
  /\ resp = NoResp
  /\ overlapped = FALSE

\* the list requests of account 1's users with every query, one at a time
NextPage ==
  \/ \E tok \in TokensOf(UsersOf(1)), query \in Queries :
       \/ getNotes(1, tok, query)
       \/ getMyNotes(1, tok, query)
       \/ getPaymentHistory(1, tok, query)
  \/ list(1) \/ myList(1) \/ paymentList(1)

SpecPage == InitPage /\ [][NextPage]_vars

\* create and delete requests of one account's users, one at a time
NextQuota ==
  \/ CreateDelete(1, TokensOf(UsersOf(1)), MaxQuotaNotes)
  \/ CreateDeleteStep(1)

SpecQuota == Init /\ [][NextQuota]_vars

\* create and delete requests of one account's admin, interleaved
NextRace ==
  \E s \in Slots :
    \/ CreateDelete(s, TokensOf({1}), MaxRaceNotes)
    \/ CreateDeleteStep(s)

SpecRace == Init /\ [][NextRace]_vars

\* Init after the users of account 1 have created notes, one request at a
\* time, up to one or two below the free plan's maxNotes
InitNearQuota ==
  /\ \E size \in {FreeMaxNotes - 2, FreeMaxNotes - 1} :
       /\ accounts = (1 :> [NewAccount(<<"a">>) EXCEPT !.noteCount = size]
                      @@ 2 :> NewAccount(<<"b">>))
       /\ notes = [k \in 1..size |->
                     [account |-> 1, user |-> 1 + (k % 2), title |-> <<"a">>,
                      description |-> <<>>, tags |-> <<>>, isDeleted |-> FALSE]]
  /\ roles = <<NewRole(1, ROLES.ADMIN), NewRole(1, ROLES.MEMBER),
               NewRole(2, ROLES.ADMIN)>>
  /\ users = (1 :> NewUser(1, <<"a">>, 1, 0) @@ 2 :> NewUser(1, <<"m">>, 2, 0)
              @@ 3 :> NewUser(2, <<"b">>, 3, 0))
  /\ tags = <<>>
  /\ payments = <<>>
  /\ subscriptions = <<>>
  /\ orders = 0
  /\ now = 1
  /\ tokens = {generateToken(u, 1) : u \in UserIds}
  /\ req = [s \in Slots |-> IdleReq]
  /\ resp = NoResp
  /\ overlapped = FALSE

\* create requests of account 1's users, interleaved, near the quota
NextQuotaRace ==
  \E s \in Slots :
    \/ /\ Len(notes) + Cardinality(InFlight("createNote"))
            < FreeMaxNotes + MaxInFlight
       /\ \E tok \in TokensOf(UsersOf(1)) : createNote(s, tok, PlainBody)
    \/ noteSave(s) \/ noteCount(s)

SpecQuotaRace == InitNearQuota /\ [][NextQuotaRace]_vars

\* subscription requests of one account's users, one at a time
NextSub ==
  \/ SubscriptionRequest(1, TokensOf(UsersOf(1)), Slugs, VerifyArgs(1..MaxPayments))
  \/ SubscriptionStep(1)

SpecSub == Init /\ [][NextSub]_vars

\* the same requests, each verify-payment free to stop behind its first save
NextStop ==
  \/ NextSub
  \/ stop(1)

SpecStop == Init /\ [][NextStop]_vars

\* the admin of account 1 creates and deletes notes, reads the subscription
\* and moves the account between free and pro, one request at a time
NextDecide ==
  \/ CreateDelete(1, TokensOf({1}), MaxQuotaNotes)
  \/ CreateDeleteStep(1)
  \/ \E tok \in TokensOf({1}) : getSubscription(1, tok)
  \/ subscriptionGet(1)
  \/ /\ Len(payments) < MaxPayments
     /\ \E tok \in TokensOf({1}) : upgradeSubscription(1, tok, <<"a">>)
  \/ \E tok \in TokensOf({1}), args \in CheckoutArgs(1..MaxPayments) :
       verifyPaymentAndUpgrade(1, tok, args)
  \/ \E tok \in TokensOf({1}) : cancelSubscription(1, tok)
  \/ PlanChangeStep(1)

SpecDecide == Init /\ [][NextDecide]_vars

\* every notes and subscription request of account 1's users, naming any
\* id, slug or tag, once account 2's admin has created notes and ordered an
\* upgrade
Untouched(a) ==
  /\ \A n \in DOMAIN notes : notes[n].account # a
  /\ \A k \in DOMAIN payments : payments[k].account # a

NextTenant ==
  \/ NotesRequest(1, TokensOf(UsersOf(1)), MaxNotes, {TaggedBody}, UpdateBodies)
  \/ SubscriptionRequest(1, TokensOf({1}), Slugs, VerifyArgs(1..MaxPayments))
  \/ \E tok \in TokensOf({2}) : getSubscription(1, tok)
  \/ \E tok \in TokensOf({2}) : getPaymentHistory(1, tok, DefaultQuery)
  \/ /\ Len(notes) < MaxNotes /\ Untouched(1)
     /\ \E tok \in TokensOf(UsersOf(2)) : createNote(1, tok, TaggedBody)
  \/ /\ Len(payments) < MaxPayments /\ Untouched(1)
     /\ \E tok \in TokensOf(UsersOf(2)) : upgradeSubscription(1, tok, <<"b">>)
  \/ NotesStep(1)
  \/ SubscriptionStep(1)

SpecTenant == Init /\ [][NextTenant]_vars

\* the instants the clock is read at: around each whole second
ClockValues ==
  {k * MsPerSecond + d : k \in 0..MaxSeconds, d \in {0, 1, MsPerSecond - 1}}

PasswordChanges ==
  {[currentPassword |-> "passwd", newPassword |-> "qwerty"],
   [currentPassword |-> "passwd", newPassword |-> "passwd"],
   [currentPassword |-> "passwd", newPassword |-> "abc"],
   [currentPassword |-> "", newPassword |-> "qwerty"]}

\* login, logout, change-password and authenticated reads of one account's
\* users, one at a time, while the clock moves
NextAuth ==
  \/ \E t \in ClockValues : Tick(t)
  \/ /\ Cardinality(tokens) < MaxTokens
     /\ \E u \in UsersOf(1), password \in {"passwd", "qwerty"} : login(1, u, password)
  \/ \E tok \in TokensOf(UsersOf(1)) : logout(1, tok)
  \/ \E tok \in TokensOf(UsersOf(1)), passwords \in PasswordChanges :
       changePassword(1, tok, passwords)
  \/ \E tok \in TokensOf(UsersOf(1)) : getMyNotes(1, tok, DefaultQuery)
  \/ token(1) \/ compare(1) \/ userSave(1) \/ myList(1)

SpecAuth == Init /\ [][NextAuth]_vars

\* subscription requests of one admin: verify-payment requests interleave
\* with each other, upgrade and cancel requests are taken up one at a time
Quiet == \A s \in Slots : req[s].pc = "idle"

NextSubRace ==
  \E s \in Slots :
    \/ /\ Quiet
       /\ Len(payments) < MaxPayments
       /\ \E tok \in TokensOf({1}) : upgradeSubscription(s, tok, <<"a">>)
    \/ \E tok \in TokensOf({1}), args \in CheckoutArgs(1..MaxPayments) :
         verifyPaymentAndUpgrade(s, tok, args)
    \/ /\ Quiet
       /\ \E tok \in TokensOf({1}) : cancelSubscription(s, tok)
    \/ PlanChangeStep(s)

SpecSubRace == Init /\ [][NextSubRace]_vars

\* the steps of a register in flight
RegisterStep(s) ==
  \/ regFind(s) \/ slugFind(s) \/ regAccount(s) \/ regRole(s) \/ regUser(s)

\* register bodies: emails in either case, account names that yield the
\* slugs "a" and "a-1" or nothing, a password that is long enough or too
\* short, and the body with every field missing
RegisterBodies ==
  {[email |-> e, password |-> pw, name |-> <<"n">>, accountName |-> an] :
     e \in {<<"w">>, <<"W">>, <<"m">>},
     pw \in {"passwd", "abc"},
     an \in {<<"A">>, <<"a", " ", "-", "1">>, <<"!">>}}
  \cup {NoRegister}

\* the store before the first registration
InitEmpty ==
  /\ accounts = <<>>
  /\ roles = <<>>
  /\ users = <<>>
  /\ notes = <<>>
  /\ tags = <<>>
  /\ payments = <<>>
  /\ subscriptions = <<>>
  /\ orders = 0
  /\ now = 1
  /\ tokens = {}
  /\ req = [s \in Slots |-> IdleReq]
  /\ resp = NoResp
  /\ overlapped = FALSE

\* registrations, interleaved with each other
NextRegister ==
  \E s \in Slots :
    \/ /\ Cardinality(DOMAIN accounts) + Cardinality(InFlight("register"))
            < MaxAccounts
       /\ \E body \in RegisterBodies : register(s, body)
    \/ RegisterStep(s)

SpecRegister == InitEmpty /\ [][NextRegister]_vars

\* the steps of an invite in flight
InviteStep(s) ==
  \/ inviteFind(s) \/ roleFind(s) \/ roleSave(s) \/ inviteSave(s)

\* invite bodies: a new email in either case, one the account has, none; a
\* role that is absent, admin, or not a role
InviteBodies ==
  {[email |-> e, name |-> <<"n">>, role |-> r] :
     e \in {UNDEF, <<"w">>, <<"W">>, <<"m">>},
     r \in {"undefined", ROLES.ADMIN, "owner"}}

\* the admin-only requests and the subscription reads of account 1's admin
\* and member, and the invites of every user (account 2 has no member Role
\* yet), one at a time
NextAdmin ==
  \/ SubscriptionRequest(1, TokensOf(UsersOf(1)), Slugs, VerifyArgs(1..MaxPayments))
  \/ SubscriptionStep(1)
  \/ /\ Cardinality(DOMAIN users) < MaxUsers
     /\ \E tok \in tokens, body \in InviteBodies : inviteUser(1, tok, body)
  \/ InviteStep(1)

SpecAdmin == Init /\ [][NextAdmin]_vars

\* invite bodies for a new email, with the role left out (member) or admin
RoleBodies ==
  {[email |-> e, name |-> <<"n">>, role |-> r] :
     e \in {<<"w">>, <<"x">>}, r \in {"undefined", ROLES.ADMIN}}

\* a register body for an account name no account has
NewTenantBody ==
  [email |-> <<"w">>, password |-> "passwd", name |-> <<"n">>,
   accountName |-> <<"n">>]

\* invites by every user and registrations, interleaved
NextRoleRace ==
  \E s \in Slots :
    \/ /\ Cardinality(DOMAIN users) < MaxUsers
       /\ \E tok \in tokens, body \in RoleBodies : inviteUser(s, tok, body)
    \/ InviteStep(s)
    \/ /\ Cardinality(DOMAIN accounts) + Cardinality(InFlight("register"))
            < MaxAccounts
       /\ register(s, NewTenantBody)
    \/ RegisterStep(s)

SpecRoleRace == Init /\ [][NextRoleRace]_vars

\* verify-payment bodies for the stored payments: the gateway's payment of
\* the order, with the gateway's signature or a forged one
ReplayArgs(paymentIds) ==
  CheckoutArgs(paymentIds)
    \cup {[args EXCEPT !.razorpay_signature = Forged] :
            args \in CheckoutArgs(paymentIds)}

\* the steps of upgrade and verify-payment requests in flight
OrderStep(s) ==
  \/ validateTenantSlug(s) \/ createOrder(s) \/ paymentSave(s)

VerifyStep(s) ==
  \/ paymentFind(s) \/ paymentFailed(s) \/ getPaymentDetails(s)
  \/ paymentSuccess(s) \/ subscriptionFind(s) \/ existingCancel(s)
  \/ subscriptionCreate(s) \/ paymentLink(s) \/ accountUpgrade(s)
  \/ accountSubscription(s)

\* verify-payment requests of one admin, genuine and forged, interleaved with
\* each other; upgrade requests are taken up one at a time
NextVerifyRace ==
  \E s \in Slots :
    \/ /\ Quiet
       /\ Len(payments) < MaxPayments
       /\ \E tok \in TokensOf({1}) : upgradeSubscription(s, tok, <<"a">>)
    \/ \E tok \in TokensOf({1}), args \in ReplayArgs(1..MaxPayments) :
         verifyPaymentAndUpgrade(s, tok, args)
    \/ OrderStep(s)
    \/ VerifyStep(s)

SpecVerifyRace == Init /\ [][NextVerifyRace]_vars

\* upgrade requests of every user naming every slug, with the verify-payment
\* and cancel requests that move the accounts between free and pro, one at a
\* time
NextSlug ==
  \/ /\ Len(payments) < MaxPayments
     /\ \E tok \in tokens, slug \in Slugs : upgradeSubscription(1, tok, slug)
  \/ \E tok \in tokens, args \in CheckoutArgs(1..MaxPayments) :
       verifyPaymentAndUpgrade(1, tok, args)
  \/ \E tok \in tokens : cancelSubscription(1, tok)
  \/ PlanChangeStep(1)

SpecSlug == Init /\ [][NextSlug]_vars

\* tokens a client can present: the issued ones, and copies whose signature
\* does not verify under JWT_SECRET
Presentable == tokens \cup {[tok EXCEPT !.signed = FALSE] : tok \in tokens}

\* request headers: an Authorization header with the Bearer scheme, with
\* another scheme, or none, and a token cookie or none
Headers ==
  {[authorization |-> [scheme |-> sch, token |-> t], cookies |-> [token |-> c]] :
     sch \in {"Bearer ", "Basic ", "none"},
     t \in Presentable \cup {NoToken}, c \in tokens \cup {NoToken}}

\* the watermarks and clock readings around a token issued at 1 ms
Watermarks == {0, 1, 2}
ExpiryClock ==
  {TokenLifeSeconds * MsPerSecond - 1, TokenLifeSeconds * MsPerSecond}

\* user and account documents as the schemas allow them to be stored: user 1
\* with any isActive and isDeleted, referring to account 1 (with any isActive
\* and isDeleted) or to an account that is gone; user 2 is gone, its token
\* is not
InitGate ==
  /\ \E active, deleted \in BOOLEAN :
       accounts = (1 :> [NewAccount(<<"a">>) EXCEPT !.isActive = active,
                                                   !.isDeleted = deleted])
  /\ roles = <<NewRole(1, ROLES.ADMIN)>>
  /\ \E active, deleted \in BOOLEAN, a \in {1, 2}, w \in Watermarks :
       users = (1 :> [NewUser(a, <<"a">>, 1, w) EXCEPT !.isActive = active,
                                                  !.isDeleted = deleted])
  /\ notes = <<>>
  /\ tags = <<>>
  /\ payments = <<>>
  /\ subscriptions = <<>>
  /\ orders = 0
  /\ now = 1
  /\ tokens = {generateToken(1, 1), generateToken(2, 1)}
  /\ req = [s \in Slots |-> IdleReq]
  /\ resp = NoResp
  /\ overlapped = FALSE

\* requests behind authenticate, presenting any headers, while the clock
\* moves up to the tokens' expiry
NextGate ==
  \/ \E t \in ExpiryClock : Tick(t)
  \/ \E h \in Headers : logout(1, extractToken(h))
  \/ \E h \in Headers : getMyNotes(1, extractToken(h), DefaultQuery)
  \/ /\ Len(notes) < MaxNotes
     /\ \E h \in Headers : createNote(1, extractToken(h), PlainBody)
  \/ userSave(1) \/ myList(1) \/ noteSave(1) \/ noteCount(1)

SpecGate == InitGate /\ [][NextGate]_vars

\* ------------------------------------------------------------ properties

AccountOf(u) == users[u].account

\* the documents of account b in a collection are the same before and after,
\* and none was added
Kept(old, new, b) ==
  /\ \A k \in DOMAIN old : old[k].account = b => new[k] = old[k]
  /\ \A k \in DOMAIN new \ DOMAIN old : new[k].account # b

\* C1: on a free account whose quota is Account.limit, with create requests
\* handled one at a time, a creation is let through and saves its note while
\* the account has fewer non-deleted notes than the quota, and the creation
\* attempted when it has as many as the quota is answered 403 and saves
\* nothing.
QuotaEnforced ==
  [][LET created == req[1].pc = "idle" /\ req'[1].op = "createNote"
         refused == /\ req[1].pc = "idle" /\ req'[1].pc = "idle"
                    /\ resp'.op = "createNote"
         u == IF created THEN req'[1].user ELSE resp'.user
     IN /\ (created \/ refused) /\ accounts[AccountOf(u)].plan = SUBSCRIPTION_PLANS.FREE
           => IF Cardinality(LiveNotes(AccountOf(u))) < accounts[AccountOf(u)].limit
              THEN created
              ELSE refused /\ resp'.status = 403 /\ notes' = notes
        /\ req[1].pc = "noteSave" => Len(notes') = Len(notes) + 1
        /\ req[1].pc = "noteCount" => resp'.status = 201]_vars

\* C1, the state the gate lets through: a free account holding more
\* non-deleted notes than its quota
OverQuota ==
  \E a \in AccountIds :
    /\ accounts[a].plan = SUBSCRIPTION_PLANS.FREE
    /\ Cardinality(LiveNotes(a)) > accounts[a].limit

\* the user whose request takes the step
Actor ==
  IF req[1].pc # "idle" THEN req[1].user
  ELSE IF req'[1].pc # "idle" THEN req'[1].user
  ELSE resp'.user

\* C2: no response carries a note, tag or payment of an account other than
\* the caller's, and no step of a request changes a note, tag, payment,
\* subscription or account record of an account other than the caller's,
\* whatever id, slug or tag name the request names.
TenantIsolation ==
  /\ [](resp.user # 0 =>
          /\ \A n \in resp.notes : notes[n].account = AccountOf(resp.user)
          /\ \A t \in resp.tags : tags[t].account = AccountOf(resp.user)
          /\ \A k \in resp.payments : payments[k].account = AccountOf(resp.user))
  /\ [][\A b \in AccountIds \ {AccountOf(Actor)} :
          /\ accounts'[b] = accounts[b]
          /\ Kept(notes, notes', b)
          /\ Kept(tags, tags', b)
          /\ Kept(payments, payments', b)
          /\ Kept(subscriptions, subscriptions', b)]_vars

\* C2: account 1's admin has a delete in flight that names a live note of
\* account 2
ForeignDeleteInFlight ==
  /\ req[1].op = "deleteNote" /\ req[1].pc = "delFind"
  /\ req[1].account = 1
  /\ req[1].role = ROLES.ADMIN
  /\ req[1].id \in DOMAIN notes
  /\ notes[req[1].id].account = 2
  /\ ~notes[req[1].id].isDeleted

\* a request on /notes/:id by a non-admin that names a live note of the
\* caller's account owned by someone else
OthersNote(r) ==
  /\ r.op \in {"getNoteById", "updateNote", "deleteNote"}
  /\ r.role # ROLES.ADMIN
  /\ r.id \in DOMAIN notes
  /\ notes[r.id].account = r.account
  /\ notes[r.id].user # r.user
  /\ ~notes[r.id].isDeleted

\* C3: GET, PUT and DELETE /notes/:id by a non-admin on a live note of the
\* caller's account owned by another user answer 404, and neither the note
\* nor the account's noteCount changes.
OthersNoteNotFound ==
  [][/\ OthersNote(req'[1]) => notes' = notes /\ accounts' = accounts
     /\ OthersNote(req[1]) =>
          /\ req'[1].pc = "idle"
          /\ resp'.status = 404
          /\ notes' = notes
          /\ accounts' = accounts]_vars

\* C3: a member has an update in flight on the admin's live note
OthersNoteUpdateInFlight ==
  OthersNote(req[1]) /\ req[1].op = "updateNote" /\ req[1].pc = "updFind"

NotesReads == {"getNotes", "getMyNotes", "getNoteById"}

NonAdminRead(ops) ==
  /\ resp.op \in ops
  /\ resp.status = 200
  /\ RoleName(resp.user) # ROLES.ADMIN

Invalidates == req[1].pc = "userSave" /\ resp'.status = 200

Forgery(r) ==
  /\ r.op = "verifyPaymentAndUpgrade"
  /\ r.args.razorpay_signature
       # HMAC(r.args.razorpay_order_id, r.args.razorpay_payment_id)

\* C6: a verify-payment request with a forged signature that finds the pending
\* payment marks it failed and answers 400; no step of it changes an account
\* or creates or cancels a subscription.
ForgeryFails ==
  [][Forgery(req[1]) =>
       /\ accounts' = accounts
       /\ subscriptions' = subscriptions
       /\ req[1].pc \in {"paymentFind", "paymentFailed"}
       /\ (/\ req[1].pc = "paymentFind"
           /\ PaymentFindOne(req[1].args.paymentId, req[1].account,
                             req[1].args.razorpay_order_id) # 0)
            => req'[1].pc = "paymentFailed"
       /\ req[1].pc = "paymentFailed" =>
            /\ payments'[req[1].doc].status = PAYMENT_STATUS.FAILED
            /\ req'[1].pc = "idle"
            /\ resp'.status = 400]_vars

\* C6: a forged verify-payment has found its pending payment
ForgeryFoundPayment ==
  /\ Forgery(req[1]) /\ req[1].pc = "paymentFailed"
  /\ payments[req[1].doc].status = PAYMENT_STATUS.PENDING

\* C7: when a verify-payment request handled alone has answered 200, the new
\* pro subscription is the account's only active one, every other
\* subscription of the account is cancelled with cancelledAt set, the payment
\* is success and linked to the new subscription, and the account is pro with
\* limit -1 and currentSubscription the new subscription.
UpgradeApplied ==
  resp.op = "verifyPaymentAndUpgrade" /\ resp.status = 200 =>
    \E k \in resp.subscriptions, p \in resp.payments :
      /\ ActiveSubscriptions(AccountOf(resp.user)) = {k}
      /\ subscriptions[k].plan = SUBSCRIPTION_PLANS.PRO
      /\ \A j \in DOMAIN subscriptions \ {k} :
           subscriptions[j].account = AccountOf(resp.user) =>
             /\ subscriptions[j].status = "cancelled"
             /\ subscriptions[j].cancelledAt # NoDate
      /\ payments[p].status = PAYMENT_STATUS.SUCCESS
      /\ payments[p].subscription = k
      /\ accounts[AccountOf(resp.user)].plan = SUBSCRIPTION_PLANS.PRO
      /\ accounts[AccountOf(resp.user)].limit = -1
      /\ accounts[AccountOf(resp.user)].currentSubscription = k

\* C7: a verify-payment has answered 200 on an account that had an active
\* subscription before
UpgradeReplacedActive ==
  /\ resp.op = "verifyPaymentAndUpgrade" /\ resp.status = 200
  /\ \E j \in DOMAIN subscriptions :
       /\ subscriptions[j].account = AccountOf(resp.user)
       /\ subscriptions[j].status = "cancelled"

\* C8 as stated: in every reachable state every account has at most one
\* active subscription, however the steps of its verify-payment requests
\* interleave.
AtMostOneActive ==
  \A a \in AccountIds : Cardinality(ActiveSubscriptions(a)) <= 1

\* C8: as long as no request was taken up or continued while another was in
\* flight, every account has at most one active subscription.
AtMostOneActiveInSequence ==
  ~overlapped => \A a \in AccountIds : Cardinality(ActiveSubscriptions(a)) <= 1

\* C8: requests handled one after another have left an account with one
\* active subscription and an earlier one cancelled
SecondUpgradeInSequence ==
  /\ ~overlapped
  /\ \E a \in AccountIds :
       /\ Cardinality(ActiveSubscriptions(a)) = 1
       /\ \E j \in DOMAIN subscriptions :
            subscriptions[j].account = a /\ subscriptions[j].status = "cancelled"

\* C9: a cancel request that finds an active subscription marks it cancelled
\* with cancelledAt set and sets the account to plan free, limit 3 and no
\* current subscription before it answers 200, without looking at endDate; a
\* cancel request that finds none answers 404 and changes nothing.
CancelDowngrades ==
  [][req[1].op = "cancelSubscription" =>
       /\ (req[1].pc = "cancelFind" /\ ActiveSubscriptions(req[1].account) = {})
            => resp'.status = 404 /\ UNCHANGED store
       /\ (req[1].pc = "cancelFind" /\ ActiveSubscriptions(req[1].account) # {})
            => /\ req'[1].pc = "cancel"
               /\ req'[1].sub \in ActiveSubscriptions(req[1].account)
               /\ UNCHANGED store
       /\ req[1].pc = "cancel" =>
            /\ subscriptions'[req[1].sub].status = "cancelled"
            /\ subscriptions'[req[1].sub].cancelledAt # NoDate
            /\ req'[1].pc = "downgrade"
       /\ req[1].pc = "downgrade" =>
            /\ accounts'[req[1].account].plan = SUBSCRIPTION_PLANS.FREE
            /\ accounts'[req[1].account].limit = DefaultLimit
            /\ accounts'[req[1].account].currentSubscription = 0
            /\ subscriptions'[req[1].sub].status = "cancelled"
            /\ resp'.status = 200]_vars

\* C9: a cancel has answered 200 for a subscription whose end date lies ahead
CancelledBeforeEnd ==
  /\ resp.op = "cancelSubscription" /\ resp.status = 200
  /\ \E k \in resp.subscriptions :
       /\ subscriptions[k].status = "cancelled"
       /\ subscriptions[k].endDate.days > 0
  /\ accounts[AccountOf(resp.user)].plan = SUBSCRIPTION_PLANS.FREE

\* C10: noteCount is never negative, however create and delete requests
\* interleave, and a decrementNoteCount on a copy of the account whose count
\* is 0 writes nothing.
NoteCountNeverNegative ==
  /\ [](\A a \in AccountIds : accounts[a].noteCount >= 0)
  /\ [][\A s \in Slots :
          (req[s].pc = "delCount" /\ req[s].snap.noteCount = 0
             /\ req'[s].pc = "idle")
            => accounts' = accounts]_vars

\* C10: a delete is about to decrement on a copy of the account whose count
\* is 0
DecrementAtZero ==
  \E s \in Slots : req[s].pc = "delCount" /\ req[s].snap.noteCount = 0

\* a token authenticate must not let through, in the state it is presented in
Unauthentic(tok) ==
  \/ tok = NoToken
  \/ ~tok.signed
  \/ now \div MsPerSecond >= tok.exp
  \/ tok.userId \notin DOMAIN users
  \/ /\ tok.userId \in DOMAIN users
     /\ \/ ~users[tok.userId].isActive
        \/ users[tok.userId].isDeleted
        \/ tok.issuedAt < users[tok.userId].tokensInvalidBefore
        \/ users[tok.userId].account \notin DOMAIN accounts
        \/ /\ users[tok.userId].account \in DOMAIN accounts
           /\ \/ ~accounts[users[tok.userId].account].isActive
              \/ accounts[users[tok.userId].account].isDeleted

\* C11: authenticate answers 401 for every request whose token is missing,
\* not validly signed, expired, of a user that is not found, inactive or
\* deleted, issued before the user's watermark, or of a user whose account is
\* missing, inactive or deleted; a request is taken up only with a token
\* that has none of these, bound to the token's user and that user's
\* account; a request that is turned away changes nothing stored.
AuthenticateGate ==
  /\ [](\A h \in Headers :
          Unauthentic(extractToken(h)) => authenticate(extractToken(h)) = 401)
  /\ [][/\ (req[1].pc = "idle" /\ req'[1].pc # "idle") =>
            /\ ~Unauthentic(req'[1].decoded)
            /\ req'[1].user = req'[1].decoded.userId
            /\ req'[1].account = users[req'[1].user].account
            /\ req'[1].snap = accounts[req'[1].account]
        /\ (req[1].pc = "idle" /\ req'[1].pc = "idle") => UNCHANGED store]_vars

\* C11: a request presenting a validly signed, unexpired token issued after
\* the watermark was answered 401, because its user is inactive or deleted
InactiveUserTurnedAway ==
  /\ resp.status = 401
  /\ resp.user \in DOMAIN users
  /\ ~users[resp.user].isActive \/ users[resp.user].isDeleted
  /\ \E tok \in tokens :
       /\ tok.userId = resp.user
       /\ jwtVerify(tok, now) = "ok"
       /\ tok.issuedAt >= users[resp.user].tokensInvalidBefore

AdminOnly ==
  {"inviteUser", "upgradeSubscription", "verifyPaymentAndUpgrade",
   "cancelSubscription"}

\* the operation of the request that takes the step
ActorOp ==
  IF req[1].pc # "idle" THEN req[1].op
  ELSE IF req'[1].pc # "idle" THEN req'[1].op
  ELSE resp'.op

\* the step belongs to an admin-only request of a member
MemberOnAdminOnly ==
  /\ ActorOp \in AdminOnly
  /\ Actor \in DOMAIN users
  /\ RoleName(Actor) = ROLES.MEMBER

\* C12 as stated: every admin-only request of a member is answered 403 and
\* changes no user, role, payment, subscription or account.
MemberForbidden ==
  [][MemberOnAdminOnly =>
       /\ UNCHANGED <<users, roles, payments, subscriptions, accounts>>
       /\ req'[1].pc = "idle" => resp'.status = 403
       /\ req'[1].pc # "idle" =>
            ActorOp = "upgradeSubscription" /\ req'[1].pc = "slug"]_vars

\* C12: an admin-only request of a member changes no user, role, payment,
\* subscription or account and is answered 403, except an upgrade whose slug
\* matches no active account, which is answered 404 because the slug is
\* resolved before the role is looked at.
MemberForbiddenOrNoTenant ==
  [][MemberOnAdminOnly =>
       /\ UNCHANGED <<users, roles, payments, subscriptions, accounts>>
       /\ req'[1].pc = "idle" =>
            resp'.status =
              IF ActorOp = "upgradeSubscription" /\ TenantBySlug(req[1].slug) = 0
              THEN 404 ELSE 403
       /\ req'[1].pc # "idle" =>
            ActorOp = "upgradeSubscription" /\ req'[1].pc = "slug"]_vars

\* C12: a member's cancel was answered 403 while the account has an active
\* subscription
MemberCancelForbidden ==
  /\ resp.op = "cancelSubscription" /\ resp.status = 403
  /\ RoleName(resp.user) = ROLES.MEMBER
  /\ ActiveSubscriptions(AccountOf(resp.user)) # {}

\* C13: on the upgrade route a slug that matches no active non-deleted
\* account is answered 404 and a slug of another account than the caller's is
\* answered 403, with nothing stored changed; a gateway order is created and a
\* Payment is stored only by an upgrade request whose slug resolved to the
\* caller's account, and the Payment carries the account of the user who sent
\* the request, for good.
SlugGuardsPayments ==
  [][/\ req[1].pc = "slug" =>
          LET tenant == TenantBySlug(req[1].slug) IN
          /\ tenant = 0 => req'[1].pc = "idle" /\ resp'.status = 404
          /\ (tenant # 0 /\ tenant # AccountOf(req[1].user)) =>
               req'[1].pc = "idle" /\ resp'.status = 403
          /\ UNCHANGED <<store, orders>>
     /\ (orders' # orders \/ Len(payments') # Len(payments)) =>
          /\ req[1].op = "upgradeSubscription"
          /\ TenantBySlug(req[1].slug) = AccountOf(req[1].user)
     /\ Len(payments') > Len(payments) =>
          /\ Len(payments') = Len(payments) + 1
          /\ payments'[Len(payments')].account = AccountOf(req[1].user)
     /\ \A k \in DOMAIN payments :
          payments'[k].account = payments[k].account]_vars

\* C13: an admin's upgrade naming the other account's slug was answered 403
ForeignSlugForbidden ==
  /\ resp.op = "upgradeSubscription" /\ resp.status = 403
  /\ RoleName(resp.user) = ROLES.ADMIN
  /\ accounts[AccountOf(resp.user)].plan = SUBSCRIPTION_PLANS.FREE

\* the statuses of the payments change only from pending to success or to
\* failed in this step, and a payment that is added is pending
PendingOnce ==
  /\ \A k \in DOMAIN payments :
       payments'[k].status # payments[k].status =>
         /\ payments[k].status = PAYMENT_STATUS.PENDING
         /\ payments'[k].status \in {PAYMENT_STATUS.SUCCESS, PAYMENT_STATUS.FAILED}
  /\ \A k \in DOMAIN payments' \ DOMAIN payments :
       payments'[k].status = PAYMENT_STATUS.PENDING

\* C14 as stated: a Payment is created pending and its status changes only
\* from pending to success or failed, also when verify-payment requests on
\* the same Payment interleave.
PaymentStatusFinal == [][PendingOnce]_vars

\* C14: a Payment is created pending, and as long as no request was taken up
\* or continued while another was in flight its status changes only from
\* pending to success or from pending to failed.
PaymentStatusFinalInSequence == [][~overlapped => PendingOnce]_vars

\* C14: requests handled one after another have left one payment success
\* and another failed
VerifiedBothWays ==
  /\ ~overlapped
  /\ \E k \in DOMAIN payments : payments[k].status = PAYMENT_STATUS.SUCCESS
  /\ \E k \in DOMAIN payments : payments[k].status = PAYMENT_STATUS.FAILED

\* C15: a verify-payment request whose paymentId names no pending Payment of
\* the caller's account with the supplied gateway order id (none with that id,
\* another account's, another order id, or one already success or failed) is
\* answered 404 and changes no payment, subscription or account.
UnknownPaymentNotFound ==
  [][(/\ req[1].op = "verifyPaymentAndUpgrade"
      /\ req[1].pc = "paymentFind"
      /\ PaymentFindOne(req[1].args.paymentId, req[1].account,
                        req[1].args.razorpay_order_id) = 0)
       => /\ req'[1].pc = "idle"
          /\ resp'.status = 404
          /\ UNCHANGED <<payments, subscriptions, accounts>>]_vars

\* C15: a verify-payment is about to look up a paymentId that is not an
\* ObjectId, with every other field as the gateway issued it
MalformedPaymentIdInFlight ==
  /\ req[1].op = "verifyPaymentAndUpgrade" /\ req[1].pc = "paymentFind"
  /\ req[1].args.paymentId = MalformedId
  /\ \E k \in DOMAIN payments :
       /\ payments[k].account = req[1].account
       /\ payments[k].razorpayOrderId = req[1].args.razorpay_order_id

\* the email of the register request in slot s belongs to a non-deleted user
EmailBelongs(s) ==
  \E u \in DOMAIN users :
    users[u].email = toLowerCase(req[s].reg.email) /\ ~users[u].isDeleted

\* C16: a register request changes nothing before it saves its Account; it
\* saves one Account (plan free, noteCount 0), then one admin Role of that
\* account, then one active User of that account bound to that Role, and
\* answers 201 with that account having exactly that Role and that User; a
\* register whose email, lower-cased, belongs to a non-deleted user is
\* answered 409 at the lookup, having created nothing.
RegisterCreates ==
  [][\A s \in Slots :
       (req'[s] # req[s] /\ (req[s].op = "register" \/ req'[s].op = "register")) =>
         /\ req[s].pc \in {"idle", "regFind", "slugFind"} => UNCHANGED store
         /\ (req[s].pc = "regFind" /\ EmailBelongs(s)) =>
              req'[s].pc = "idle" /\ resp'.status = 409
         /\ (req[s].pc = "regAccount" /\ req'[s].pc # "idle") =>
              /\ DOMAIN accounts' = DOMAIN accounts \cup {req'[s].account}
              /\ req'[s].account \notin DOMAIN accounts
              /\ \A a \in DOMAIN accounts : accounts'[a] = accounts[a]
              /\ accounts'[req'[s].account].plan = SUBSCRIPTION_PLANS.FREE
              /\ accounts'[req'[s].account].noteCount = 0
              /\ UNCHANGED <<roles, users>>
         /\ req[s].pc = "regRole" =>
              /\ roles' = Append(roles, NewRole(req[s].account, ROLES.ADMIN))
              /\ req'[s].doc = Len(roles')
              /\ UNCHANGED <<accounts, users>>
         /\ req[s].pc = "regUser" =>
              /\ UNCHANGED <<accounts, roles>>
              /\ resp'.status \in {201, 500}
              /\ resp'.status = 500 => UNCHANGED users
              /\ resp'.status = 201 =>
                   /\ Cardinality(DOMAIN users') = Cardinality(DOMAIN users) + 1
                   /\ \A u \in DOMAIN users : users'[u] = users[u]
                   /\ \A u \in DOMAIN users' \ DOMAIN users :
                        /\ users'[u].account = req[s].account
                        /\ users'[u].role = req[s].doc
                        /\ users'[u].isActive /\ ~users'[u].isDeleted
                   /\ Cardinality({k \in DOMAIN roles :
                                     roles[k].account = req[s].account}) = 1
                   /\ roles[req[s].doc] = NewRole(req[s].account, ROLES.ADMIN)
                   /\ Cardinality({u \in DOMAIN users' :
                                     users'[u].account = req[s].account}) = 1
         /\ (resp'.status = 201 /\ req'[s].pc = "idle") => req[s].pc = "regUser"]_vars

\* C16: a second registration was answered 201
RegisteredTwice ==
  /\ resp.op = "register" /\ resp.status = 201
  /\ Cardinality(DOMAIN users) >= 2
  /\ Cardinality(DOMAIN accounts) >= 2

\* the slugs register tries for a base slug, in order: base, base-1, ...
Candidate(baseSlug, k) == IF k = 0 THEN baseSlug ELSE Suffixed(baseSlug, k)

SlugsDistinct ==
  \A a, b \in DOMAIN accounts : a # b => accounts[a].slug # accounts[b].slug

\* the register request in slot s saves its Account with this step
SavesAccount(s) == req[s].pc = "regAccount" /\ req'[s].pc = "regRole"

\* C17 as stated: account slugs are pairwise distinct, and a registration
\* whose name yields a base slug takes the base when it is the first with
\* that base and base-k when k accounts were registered with that base before
\* it, also when registrations interleave.
SlugCountsRegistrations ==
  /\ []SlugsDistinct
  /\ [][\A s \in Slots :
          SavesAccount(s) =>
            LET baseSlug == generateSlug(req[s].reg.accountName)
                k == Cardinality({a \in DOMAIN accounts :
                                    accounts[a].base = baseSlug})
            IN accounts'[req'[s].account].slug = Candidate(baseSlug, k)]_vars

\* C17: account slugs are pairwise distinct, also when registrations
\* interleave, and a registration takes the first of base, base-1, base-2,
\* ... that no account has: every slug before it in that series is held by an
\* account, whatever name that account was registered with.
SlugFirstFree ==
  /\ []SlugsDistinct
  /\ [][\A s \in Slots :
          SavesAccount(s) =>
            LET baseSlug == generateSlug(req[s].reg.accountName) IN
            \E k \in 0..Len(Digits) :
              /\ accounts'[req'[s].account].slug = Candidate(baseSlug, k)
              /\ AccountFindOne(Candidate(baseSlug, k)) = 0
              /\ \A j \in 0..(k - 1) :
                   AccountFindOne(Candidate(baseSlug, j)) # 0]_vars

\* C17: two accounts were registered with names that yield the same base
\* slug, one of them while another registration was in flight
SameBaseTwice ==
  /\ overlapped
  /\ \E a, b \in DOMAIN accounts :
       /\ a # b
       /\ accounts[a].base = accounts[b].base
       /\ accounts[b].slug = Suffixed(accounts[a].base, 1)

\* no account has two Tags of one name
TagsUnique ==
  \A a, b \in DOMAIN tags :
    a # b => tags[a].account # tags[b].account \/ tags[a].tagName # tags[b].tagName

\* a Tag is created only for a name the account has no Tag of
TagCreatedWhenAbsent ==
  [][tags' # tags =>
       /\ Len(tags') = Len(tags) + 1
       /\ TagFindOne(tags'[Len(tags')].account, tags'[Len(tags')].tagName) = 0]_vars

\* C18: a created note whose tag list holds several strings that normalize to
\* one name leaves at most one Tag of that name in the account and carries
\* that Tag exactly once; find-or-create of a name the account has a Tag of
\* creates no Tag.
TagAttachedOnce ==
  /\ []TagsUnique
  /\ TagCreatedWhenAbsent
  /\ [](\A n \in DOMAIN notes : \A i, j \in DOMAIN notes[n].tags :
          i # j => notes[n].tags[i] # notes[n].tags[j])

\* C18: the tag list ["W", " w ", "w"] was stored as a note that carries the
\* account's one Tag "w" three times
TagAttachedThrice ==
  \E n \in DOMAIN notes :
    /\ Len(notes[n].tags) = 3
    /\ \A i \in 1..3 : notes[n].tags[i] = notes[n].tags[1]
    /\ tags[notes[n].tags[1]].tagName = <<"w">>
    /\ TagsUnique

\* C19: an admin's upgrade request naming the own account, whose plan is
\* pro, is answered 400, and no upgrade request for a pro account creates a
\* gateway order or stores a Payment; an upgrade request for a free account
\* that is answered 200 has stored exactly one Payment, pending, of that
\* account, carrying the id of the order the gateway created for it; an
\* upgrade request stores a Payment only in that step, and none of its steps
\* changes an account (plan, limit) or a subscription.
UpgradeEligibility ==
  [][req[1].op = "upgradeSubscription" =>
       /\ accounts' = accounts /\ subscriptions' = subscriptions
       /\ req[1].snap.plan = SUBSCRIPTION_PLANS.PRO =>
            /\ UNCHANGED <<payments, orders>>
            /\ ( /\ req[1].pc = "slug" /\ req[1].role = ROLES.ADMIN
                 /\ TenantBySlug(req[1].slug) = req[1].account ) =>
                 req'[1].pc = "idle" /\ resp'.status = 400
       /\ payments' # payments <=> resp'.status = 200
       /\ resp'.status = 200 =>
            /\ req[1].snap.plan = SUBSCRIPTION_PLANS.FREE
            /\ Len(payments') = Len(payments) + 1
            /\ \A k \in DOMAIN payments : payments'[k] = payments[k]
            /\ LET p == payments'[Len(payments')] IN
               /\ p.status = PAYMENT_STATUS.PENDING
               /\ p.account = req[1].account
               /\ p.razorpayOrderId = orders
               /\ p.razorpayOrderId = req[1].args.razorpay_order_id
               /\ \A k \in DOMAIN payments :
                    payments[k].razorpayOrderId # p.razorpayOrderId]_vars

\* C19: an account went pro through its first upgrade, whose Payment carries
\* the gateway's order id, and its admin's next upgrade request was answered
\* 400 with no order and no Payment added
AlreadyProRejected ==
  /\ resp.op = "upgradeSubscription" /\ resp.status = 400
  /\ accounts[AccountOf(resp.user)].plan = SUBSCRIPTION_PLANS.PRO
  /\ Len(payments) = 1 /\ orders = 1
  /\ payments[1].razorpayOrderId = 1
  /\ payments[1].account = AccountOf(resp.user)

\* C20: every note in a successful response of GET /notes/my-notes, to an
\* admin or to a member, is not deleted, belongs to the caller's account and
\* is owned by the caller.
MyNotesOwnedByCaller ==
  (resp.op = "getMyNotes" /\ resp.status = 200) =>
    \A n \in resp.notes :
      /\ ~notes[n].isDeleted
      /\ notes[n].account = AccountOf(resp.user)
      /\ notes[n].user = resp.user

\* C20: GET /notes/my-notes has answered an admin with the admin's note and
\* without the note a member of the account owns
AdminMyNotesOmitsMembers ==
  /\ resp.op = "getMyNotes" /\ resp.status = 200
  /\ RoleName(resp.user) = ROLES.ADMIN
  /\ resp.notes # {}
  /\ \E n \in LiveNotes(AccountOf(resp.user)) \ resp.notes :
       notes[n].user # resp.user

\* the notes whose deleted flag is set
Deleted == {n \in DOMAIN notes : notes[n].isDeleted}

\* C21: a successful DELETE /notes/:id first sets the deleted flag of the note,
\* keeping the record and its other fields, and then lowers the noteCount of
\* the note's account by one; a note whose flag is set stays as it is for
\* good, no response of a get, list or update carries it, and every get,
\* update or delete that looks up its id answers 404 and changes nothing
\* stored (no second decrement).
DeleteIsSoftAndFinal ==
  [][/\ req[1].pc = "delSave" =>
          /\ ~notes[req[1].doc].isDeleted
          /\ notes' = [notes EXCEPT ![req[1].doc].isDeleted = TRUE]
          /\ accounts' = accounts
          /\ req'[1].pc = "delCount"
     /\ req[1].pc = "delCount" =>
          /\ notes[req[1].doc].isDeleted /\ notes' = notes
          /\ notes[req[1].doc].account = req[1].account
          /\ accounts' = [accounts EXCEPT ![req[1].account].noteCount = @ - 1]
          /\ resp'.op = "deleteNote" /\ resp'.status = 200
     /\ (resp'.op = "deleteNote" /\ resp'.status = 200) => req[1].pc = "delCount"
     /\ Len(notes') >= Len(notes)
     /\ \A n \in Deleted : notes'[n] = notes[n]
     /\ resp'.notes \cap Deleted' = {}
     /\ ( /\ req[1].pc \in {"getFind", "updFind", "delFind"}
          /\ req[1].id \in Deleted ) =>
          /\ resp'.status = 404 /\ req'[1].pc = "idle"
          /\ UNCHANGED store]_vars

\* C21: a delete request is about to look up a note that an earlier delete
\* flagged; the record is kept and the account's count is what the first
\* delete left
DeletedAgainInFlight ==
  /\ req[1].op = "deleteNote" /\ req[1].pc = "delFind"
  /\ req[1].id \in Deleted
  /\ notes[req[1].id].account = req[1].account
  /\ Len(notes) = 1
  /\ accounts[req[1].account].noteCount = 0

\* C22: a successful PUT /notes/:id changes, of the stored notes, only the one
\* it names, and of that note only title, description and tags, each only
\* when the request provides it; the note's account, owner and deleted flag
\* stay, and no step of an update changes an account (noteCount).
UpdateIsPartial ==
  [][req[1].op = "updateNote" =>
       /\ accounts' = accounts
       /\ notes' # notes => resp'.status = 200
       /\ resp'.status = 200 =>
            LET n == req[1].doc
                body == req[1].body
            IN /\ DOMAIN notes' = DOMAIN notes
               /\ \A k \in DOMAIN notes \ {n} : notes'[k] = notes[k]
               /\ notes'[n].account = notes[n].account
               /\ notes'[n].user = notes[n].user
               /\ notes'[n].isDeleted = notes[n].isDeleted
               /\ body.title = UNDEF => notes'[n].title = notes[n].title
               /\ body.description = UNDEF =>
                    notes'[n].description = notes[n].description
               /\ body.tags = <<UNDEF>> => notes'[n].tags = notes[n].tags]_vars

\* C22: an update that provided only a title was answered 200 and the note
\* has that title with the description and the tag it was created with
TitleOnlyUpdated ==
  /\ resp.op = "updateNote" /\ resp.status = 200
  /\ \E n \in resp.notes :
       /\ notes[n].title = <<"b">>
       /\ notes[n].description = <<"d">>
       /\ Len(notes[n].tags) = 1
       /\ tags[notes[n].tags[1]].tagName = <<"w">>
       /\ accounts[notes[n].account].noteCount = 1

\* C23: no account has two Role documents of one role name, in any state that
\* register and invite requests reach, their steps interleaved or not.
RolesUnique ==
  \A a, b \in DOMAIN roles :
    a # b => roles[a].account # roles[b].account
             \/ roles[a].roleName # roles[b].roleName

\* C23: two invites for the member role in an account that had no member
\* Role, their steps interleaved, have each stored a member Role of that
\* account, and each invited user refers to a Role of its own
TwoMemberRoles ==
  /\ overlapped
  /\ \E a, b \in DOMAIN roles :
       /\ a # b
       /\ roles[a].account = roles[b].account
       /\ roles[a].roleName = ROLES.MEMBER /\ roles[b].roleName = ROLES.MEMBER
       /\ \E u, v \in DOMAIN users : users[u].role = a /\ users[v].role = b

\* the documents a response carries
Items == resp.notes \cup resp.payments

\* a list request answers with the documents that page and limit select of
\* the matching ones, newest first: those with at least (page - 1) * limit
\* and fewer than page * limit newer ones
PageSkips ==
  [][req[1].pc \in {"list", "myList", "paymentList"} =>
       LET q == req[1].query
           all == IF req[1].pc = "paymentList"
                  THEN {k \in DOMAIN payments : payments[k].account = req[1].account}
                  ELSE {n \in LiveNotes(req[1].account) :
                          req[1].pc = "myList" => notes[n].user = req[1].user}
           got == IF req[1].pc = "paymentList" THEN resp'.payments ELSE resp'.notes
       IN /\ resp'.status = 200
          /\ got \subseteq all
          /\ \A n \in all :
               n \in got <=>
                 /\ Cardinality({m \in all : m > n}) >= (q.page - 1) * q.limit
                 /\ Cardinality({m \in all : m > n}) < q.page * q.limit]_vars

\* C24: a response of GET /notes, GET /notes/my-notes or GET
\* /subscription/payments carries at most 100 documents, whatever limit was
\* asked for, and page p of a list leaves out the (p - 1) * limit newest
\* documents.
PageCapped ==
  /\ [](resp.op \in {"getNotes", "getMyNotes", "getPaymentHistory"} =>
         Cardinality(Items) <= PageCap)
  /\ PageSkips

\* C24: GET /notes has answered with more notes than the cap
PageOverCap ==
  /\ resp.op = "getNotes" /\ resp.status = 200
  /\ Cardinality(resp.notes) = PageCap + 1

\* C25: a free account holds more non-deleted notes than the maxNotes that
\* checkNoteLimit compares with only after creations whose steps interleaved
\* (creations handled one at a time stop at maxNotes); the witness
\* GatePassedTwice is such a state.
OverGateOnlyByRace ==
  \A a \in DOMAIN accounts :
    ( /\ accounts[a].plan = SUBSCRIPTION_PLANS.FREE
      /\ Cardinality(LiveNotes(a)) > SUBSCRIPTION_LIMITS.free.maxNotes )
    => overlapped

\* C25: two creations passed the gate on the same count; the free account
\* holds one note more than the gate's maxNotes and no request is in flight
GatePassedTwice ==
  /\ \A s \in Slots : req[s].pc = "idle"
  /\ accounts[1].plan = SUBSCRIPTION_PLANS.FREE
  /\ Cardinality(LiveNotes(1)) = SUBSCRIPTION_LIMITS.free.maxNotes + 1
  /\ accounts[1].noteCount = SUBSCRIPTION_LIMITS.free.maxNotes

\* the request in slot 1 is the verify-payment that found payment k
Verifying(k) == req[1].op = "verifyPaymentAndUpgrade" /\ req[1].doc = k

\* C26: a verify-payment that stops after it saved its Payment as success and
\* before it saved the account's upgrade leaves the Payment success and the
\* account's plan as it was (free for a free account); from then on no request
\* changes that Payment, and every verify-payment naming a Payment that is
\* not pending answers 404 and changes nothing, so the plan becomes pro only
\* through a verify-payment that found its Payment pending.
StoppedUpgradeStays ==
  [][/\ ( /\ req[1].op = "verifyPaymentAndUpgrade"
          /\ req[1].pc \in BehindSuccess \ {"accountSubscription"}
          /\ req'[1].pc = "idle" ) =>
          /\ payments'[req[1].doc].status = PAYMENT_STATUS.SUCCESS
          /\ accounts'[req[1].account].plan = req[1].snap.plan
          /\ accounts'[req[1].account].plan = accounts[req[1].account].plan
     /\ \A k \in DOMAIN payments :
          (payments[k].status = PAYMENT_STATUS.SUCCESS /\ ~Verifying(k)) =>
            payments'[k] = payments[k]
     /\ ( /\ req[1].pc = "paymentFind"
          /\ req[1].args.paymentId \in DOMAIN payments
          /\ payments[req[1].args.paymentId].status # PAYMENT_STATUS.PENDING ) =>
          /\ resp'.status = 404 /\ req'[1].pc = "idle"
          /\ UNCHANGED store
     /\ \A a \in DOMAIN accounts :
          ( /\ accounts[a].plan = SUBSCRIPTION_PLANS.FREE
            /\ accounts'[a].plan = SUBSCRIPTION_PLANS.PRO ) =>
            /\ req[1].op = "verifyPaymentAndUpgrade" /\ req[1].account = a
            /\ req[1].pc = "upgradeToPro"
            /\ payments[req[1].doc].status = PAYMENT_STATUS.SUCCESS]_vars

\* C26: a verify-payment stopped before it created the Subscription: its
\* Payment is success with no Subscription, the account is free with no
\* active Subscription, and a second verify-payment with the same, genuine
\* body is about to look the Payment up
StrandedVerifyInFlight ==
  /\ req[1].op = "verifyPaymentAndUpgrade" /\ req[1].pc = "paymentFind"
  /\ req[1].args \in CheckoutArgs(1..MaxPayments)
  /\ LET k == req[1].args.paymentId IN
     /\ payments[k].status = PAYMENT_STATUS.SUCCESS
     /\ payments[k].subscription = 0
     /\ payments[k].account = req[1].account
     /\ accounts[req[1].account].plan = SUBSCRIPTION_PLANS.FREE
     /\ ActiveSubscriptions(req[1].account) = {}

\* C27: for every account the three quota decisions agree: checkNoteLimit
\* lets a creation through exactly when the canCreateNote virtual is true and
\* exactly when attachSubscriptionInfo reports canCreateNote true, each being
\* true for the pro plan and otherwise when noteCount is below the quota.
QuotaDecisionsAgree ==
  \A a \in DOMAIN accounts :
    LET account == accounts[a]
        quota == SUBSCRIPTION_LIMITS.free.maxNotes
        decision == \/ account.plan = SUBSCRIPTION_PLANS.PRO
                    \/ account.noteCount < quota
    IN /\ (checkNoteLimit(account) = 0) = decision
       /\ canCreateNote(account) = decision
       /\ attachSubscriptionInfo(account).canCreateNote = decision

\* C27: GET /subscription has told the admin of a free account that holds as
\* many notes as Account.limit that no note can be created, while
\* checkNoteLimit and attachSubscriptionInfo let a creation through
DecisionsDiffer ==
  /\ resp.op = "getSubscription" /\ resp.status = 200
  /\ ~resp.canCreateNote
  /\ LET account == accounts[AccountOf(resp.user)] IN
     /\ account.plan = SUBSCRIPTION_PLANS.FREE
     /\ account.noteCount = account.limit
     /\ checkNoteLimit(account) = 0
     /\ attachSubscriptionInfo(account).canCreateNote

\* ---------------------------------------------------------- account status

\* account 1 with any isActive and isDeleted, and its admin holding a token
InitStatus ==
  /\ \E active, deleted \in BOOLEAN :
       accounts = (1 :> [NewAccount(<<"a">>) EXCEPT !.isActive = active,
                                                   !.isDeleted = deleted])
  /\ roles = <<NewRole(1, ROLES.ADMIN)>>
  /\ users = (1 :> NewUser(1, <<"a">>, 1, NoDate))
  /\ notes = <<>>
  /\ tags = <<>>
  /\ payments = <<>>
  /\ subscriptions = <<>>
  /\ orders = 0
  /\ now = 1
  /\ tokens = {generateToken(1, 1)}
  /\ req = [s \in Slots |-> IdleReq]
  /\ resp = NoResp
  /\ overlapped = FALSE

\* every route behind authenticate, requested by the admin one at a time
NextStatus ==
  \/ NotesRequest(1, TokensOf({1}), MaxNotes, {TaggedBody}, {FullBody})
  \/ NotesStep(1)
  \/ SubscriptionRequest(1, TokensOf({1}), {<<"a">>}, VerifyArgs(1..MaxPayments))
  \/ SubscriptionStep(1)
  \/ /\ Cardinality(DOMAIN users) < MaxUsers
     /\ \E tok \in TokensOf({1}) :
          inviteUser(1, tok, [email |-> <<"w">>, name |-> <<"n">>,
                              role |-> "undefined"])
  \/ InviteStep(1)
  \/ \E tok \in TokensOf({1}) : getProfile(1, tok)
  \/ \E tok \in TokensOf({1}), passwords \in PasswordChanges :
       changePassword(1, tok, passwords)
  \/ \E tok \in TokensOf({1}) : logout(1, tok)
  \/ compare(1) \/ userSave(1)

SpecStatus == InitStatus /\ [][NextStatus]_vars

Flagged(a) == ~accounts[a].isActive \/ accounts[a].isDeleted

\* C28: the account-status stage answers 403 "Account is suspended" for an
\* inactive account, tested first, and 403 "Account has been deleted" for a
\* deleted one; behind authenticate no request of a user of an inactive or
\* deleted account is taken up by a handler: it is answered 401 or 403 and
\* the store stays as it was
StatusStageOrder ==
  /\ [](\A a \in DOMAIN accounts :
          /\ checkAccountStatus(accounts[a]) = IF Flagged(a) THEN 403 ELSE 0
          /\ checkAccountStatusMessage(accounts[a]) =
               IF ~accounts[a].isActive THEN "Account is suspended"
               ELSE IF accounts[a].isDeleted THEN "Account has been deleted"
               ELSE "none")
  /\ [](\A a \in DOMAIN accounts :
          Flagged(a) => /\ \A s \in Slots : req[s].pc = "idle"
                        /\ resp.status \in {0, 401, 403})
  /\ [][(\E a \in DOMAIN accounts : Flagged(a)) => UNCHANGED store]_vars

\* the admin of a suspended and deleted account was answered 401
FlaggedAccountRejected ==
  /\ ~accounts[1].isActive
  /\ accounts[1].isDeleted
  /\ resp.op = "createNote"
  /\ resp.user = 1
  /\ resp.status = 401

\* ---------------------------------------------------------- counters at rest

\* the claim of C29 as stated: with no request in flight every account's
\* noteCount is the number of its notes that are not deleted
NoteCountExact ==
  Quiet => \A a \in AccountIds :
             accounts[a].noteCount = Cardinality(LiveNotes(a))

\* C29: as long as no create or delete request was taken up or continued
\* while another was in flight, every account's noteCount is the number of
\* its notes that are not deleted whenever no request is in flight
NoteCountExactInSequence ==
  (Quiet /\ ~overlapped) =>
    \A a \in AccountIds : accounts[a].noteCount = Cardinality(LiveNotes(a))

\* creates and a delete handled one after another have left account 1 with a
\* deleted note and a counted one
CountedAfterDelete ==
  /\ Quiet
  /\ ~overlapped
  /\ accounts[1].noteCount = 1
  /\ Cardinality(LiveNotes(1)) = 1
  /\ \E n \in DOMAIN notes : notes[n].account = 1 /\ notes[n].isDeleted

\* upgrade, verify-payment and cancel requests of one admin: verify-payment
\* and cancel requests interleave, upgrade requests are taken up one at a
\* time
NextCancelRace ==
  \E s \in Slots :
    \/ /\ Quiet
       /\ Len(payments) < MaxPayments
       /\ \E tok \in TokensOf({1}) : upgradeSubscription(s, tok, <<"a">>)
    \/ \E tok \in TokensOf({1}), args \in CheckoutArgs(1..MaxPayments) :
         verifyPaymentAndUpgrade(s, tok, args)
    \/ \E tok \in TokensOf({1}) : cancelSubscription(s, tok)
    \/ PlanChangeStep(s)

SpecCancelRace == Init /\ [][NextCancelRace]_vars

PlanMatchesSubscription ==
  \A a \in AccountIds :
    accounts[a].plan = SUBSCRIPTION_PLANS.PRO <=> ActiveSubscriptions(a) # {}

FundsAtMostOne ==
  /\ Len(subscriptions) <=
       Cardinality({k \in DOMAIN payments :
                      payments[k].status = PAYMENT_STATUS.SUCCESS})
  /\ Quiet => \A k \in DOMAIN payments :
                payments[k].status = PAYMENT_STATUS.SUCCESS
                  <=> payments[k].subscription # 0

Revokes(u) ==
  \E s \in Slots : /\ req[s].pc = "userSave"
                    /\ req[s].user = u
                    /\ resp'.status = 200

\* C32: the token a successful login returns is accepted by authenticate as
\* soon as it is returned, also when the login follows a logout or
\* change-password of the user within the same clock second, and every
\* accepted token stays accepted over every step that is not a completed
\* logout or change-password of its user and does not bring its expiry
LoginTokenAccepted ==
  [][/\ \A s \in Slots :
          (req[s].pc = "token" /\ resp'.status = 200)
            => \A tok \in tokens' :
                 tok = generateToken(req[s].user, now)
                   => (authenticate(tok) = 0)'
     /\ \A tok \in tokens :
          (/\ authenticate(tok) = 0
           /\ ~Revokes(tok.userId)
           /\ (jwtVerify(tok, now) = "ok")')
            => (authenticate(tok) = 0)']_vars

\* a login has answered 200 and authenticate rejects the token it returned,
\* at the very clock reading it was issued
LoginTokenRejected ==
  /\ resp.op = "login"
  /\ resp.status = 200
  /\ generateToken(resp.user, now) \in tokens
  /\ users[resp.user].tokensInvalidBefore <= now
  /\ authenticate(generateToken(resp.user, now)) = 401

\* ---------------------------------------------------------- invited users

\* invites by every user, and logins and password changes of every user,
\* the invited ones included, one at a time
NextInvite ==
  \/ /\ Cardinality(DOMAIN users) < MaxUsers
     /\ \E tok \in tokens, body \in RoleBodies : inviteUser(1, tok, body)
  \/ InviteStep(1)
  \/ /\ Cardinality(tokens) < MaxTokens
     /\ \E u \in DOMAIN users, password \in {"passwd", "qwerty"} :
          login(1, u, password)
  \/ \E tok \in tokens, passwords \in PasswordChanges :
       changePassword(1, tok, passwords)
  \/ token(1) \/ compare(1) \/ userSave(1)

SpecInvite == Init /\ [][NextInvite]_vars

\* the users inviteUser has created
Invited == DOMAIN users \ UserIds

\* C33: a login of an invited user with the temporary password of the invite
\* is answered 200 with a token
InvitedLoginSucceeds ==
  \A u \in Invited :
    (/\ resp.op = "login"
     /\ resp.user = u
     /\ comparePassword("passwd", users[u].password))
      => /\ resp.status = 200
         /\ \E tok \in tokens : tok.userId = u

\* an invited user of an active account presented the temporary password and
\* the login was answered 401
InvitedLoginRefused ==
  \E u \in Invited :
    /\ resp.op = "login"
    /\ resp.user = u
    /\ resp.status = 401
    /\ comparePassword("passwd", users[u].password)
    /\ accounts[users[u].account].isActive
    /\ ~users[u].isActive

\* ---------------------------------------------------------- a create that fails

\* account 1 with no notes, or with as many as the free plan's maxNotes
FirstSizes == {0, FreeMaxNotes}

AccountsWith(size) ==
  1 :> [NewAccount(<<"a">>) EXCEPT !.noteCount = size] @@ 2 :> NewAccount(<<"b">>)

NotesWith(size) ==
  [k \in 1..size |->
     [account |-> 1, user |-> 1 + (k % 2), title |-> <<"a">>,
      description |-> <<>>, tags |-> <<>>, isDeleted |-> FALSE]]

\* Init after the users of account 1 have created size notes without tags
InitFirst ==
  /\ \E size \in FirstSizes :
       /\ accounts = AccountsWith(size)
       /\ notes = NotesWith(size)
  /\ roles = <<NewRole(1, ROLES.ADMIN), NewRole(1, ROLES.MEMBER),
               NewRole(2, ROLES.ADMIN)>>
  /\ users = (1 :> NewUser(1, <<"a">>, 1, 0) @@ 2 :> NewUser(1, <<"m">>, 2, 0)
              @@ 3 :> NewUser(2, <<"b">>, 3, 0))
  /\ tags = <<>>
  /\ payments = <<>>
  /\ subscriptions = <<>>
  /\ orders = 0
  /\ now = 1
  /\ tokens = {generateToken(u, 1) : u \in UserIds}
  /\ req = [s \in Slots |-> IdleReq]
  /\ resp = NoResp
  /\ overlapped = FALSE

\* create bodies: the title missing, blank or present; no tags, one or two
FirstBodies ==
  {[title |-> ti, description |-> UNDEF, tags |-> tl] :
     ti \in {UNDEF, <<" ">>, <<"a">>, <<" ", "a">>},
     tl \in {<<UNDEF>>, << <<"w">> >>, << <<"w">>, <<"x">> >>,
             << <<"w">>, <<"W">> >>}}

\* the first request on the store is a create request, with or without a
\* token
NextFirst ==
  \/ /\ resp.op = "none"
     /\ \E tok \in tokens \cup {NoToken}, body \in FirstBodies :
          createNote(1, tok, body)
  \/ tagFindOne(1) \/ tagCreate(1) \/ noteSave(1) \/ noteCount(1)

SpecFirst == InitFirst /\ [][NextFirst]_vars

\* C34: a create request that is not answered 201 leaves the accounts, the
\* notes and the tags as they were before it
FailedCreateChangesNothing ==
  (resp.op = "createNote" /\ resp.status # 201)
    => \E size \in FirstSizes :
         /\ accounts = AccountsWith(size)
         /\ notes = NotesWith(size)
         /\ tags = <<>>

\* a create request with a blank title and a tag was answered 500 and has
\* left the tag it created
FailedCreateLeftTag ==
  /\ resp.op = "createNote"
  /\ resp.status = 500
  /\ notes = <<>>
  /\ accounts[1].noteCount = 0
  /\ Len(tags) = 1

\* ---------------------------------------------------------- the gateway fails

\* C35: when the signature is valid and the fetch of the payment details
\* fails, verify-payment answers 500 and changes no document; the Payment is
\* still pending and Payment.findOne of the same request still finds it, so
\* the request can be retried
DetailsFailureKeepsPending ==
  [][\A s \in Slots :
       (req[s].pc = "paymentDetails" /\ req'[s].pc = "idle")
         => /\ resp'.status = 500
            /\ UNCHANGED store
            /\ payments'[req[s].doc].status = PAYMENT_STATUS.PENDING
            /\ PaymentFindOne(req[s].args.paymentId, req[s].account,
                              req[s].args.razorpay_order_id) = req[s].doc]_vars

\* a verify-payment with the gateway's signature was answered 500, the
\* Payment is still pending, and nothing was created
DetailsFailed ==
  /\ resp.op = "verifyPaymentAndUpgrade"
  /\ resp.status = 500
  /\ Len(payments) = 1
  /\ payments[1].status = PAYMENT_STATUS.PENDING
  /\ subscriptions = <<>>

\* ---------------------------------------------------------- plan and limit

PlanLimit(account) ==
  /\ account.plan = SUBSCRIPTION_PLANS.PRO <=> account.limit = ProLimit
  /\ account.plan = SUBSCRIPTION_PLANS.FREE => account.limit = DefaultLimit

\* C36: in every reachable state every account's plan is pro exactly when
\* its limit is -1, and a free account's limit is 3, the value register and
\* cancel both write; every step that changes an account's plan changes its
\* limit and every step that changes its limit changes its plan
PlanLimitConsistent ==
  /\ [](\A a \in DOMAIN accounts : PlanLimit(accounts[a]))
  /\ [](DefaultLimit = CancelLimit)
  /\ [][\A a \in DOMAIN accounts :
          accounts'[a].plan # accounts[a].plan
            <=> accounts'[a].limit # accounts[a].limit]_vars

\* a cancel request has answered 200 on an account that verify-payment had
\* made pro: the account is free again with limit 3
FreeAgain ==
  /\ resp.op = "cancelSubscription"
  /\ resp.status = 200
  /\ accounts[AccountOf(resp.user)].plan = SUBSCRIPTION_PLANS.FREE
  /\ accounts[AccountOf(resp.user)].limit = CancelLimit
  /\ \E k \in DOMAIN payments : payments[k].status = PAYMENT_STATUS.SUCCESS

\* ---------------------------------------------------------- watermarks

\* logins, logouts and password changes of account 1's users, interleaved,
\* while the clock moves
NextAuthRace ==
  \/ \E t \in {MsPerSecond, MsPerSecond + 1} : Tick(t)
  \/ \E s \in Slots :
       \/ /\ Cardinality(tokens) < MaxTokens
          /\ \E u \in UsersOf(1) : login(s, u, "passwd")
       \/ \E tok \in TokensOf(UsersOf(1)) : logout(s, tok)
       \/ \E tok \in TokensOf(UsersOf(1)) :
            changePassword(s, tok, [currentPassword |-> "passwd",
                                    newPassword |-> "qwerty"])
       \/ token(s) \/ compare(s) \/ userSave(s)

SpecAuthRace == Init /\ [][NextAuthRace]_vars

\* C37: no step lowers a user's tokensInvalidBefore, and a step that changes
\* it is the save of a logout or change-password of that very user; logins
\* change no watermark, and the watermarks of other users stay as they are
WatermarkOnlyRises ==
  [][\A u \in DOMAIN users :
       /\ users'[u].tokensInvalidBefore >= users[u].tokensInvalidBefore
       /\ users'[u].tokensInvalidBefore # users[u].tokensInvalidBefore
            => \E s \in Slots :
                 /\ req[s].pc = "userSave"
                 /\ req[s].op \in {"logout", "changePassword"}
                 /\ req[s].user = u
                 /\ req'[s].pc = "idle"]_vars

\* a change-password that stamped before a later logout of the same user was
\* saved is about to save its earlier stamp
EarlierStampInFlight ==
  \E s \in Slots :
    /\ req[s].pc = "userSave"
    /\ req[s].op = "changePassword"
    /\ validPassword(req[s].passwords.newPassword)
    /\ req[s].stamp < users[req[s].user].tokensInvalidBefore
    /\ \E tok \in tokens :
         /\ tok.userId = req[s].user
         /\ authenticate(tok) = 401
         /\ tok.iat * MsPerSecond >= req[s].stamp

\* ---------------------------------------------------------- change-password

\* C38: a change-password whose current password is wrong, or whose new
\* password is the current one, is answered 400 and changes no document; a
\* change-password answered 200 has stored the new password and not the old
\* one; a login is let through exactly when the password it presents is the
\* stored one, and is answered 401 otherwise
ChangePasswordChecks ==
  [][/\ (/\ req[1].pc = "compare"
         /\ req'[1] # req[1]
         /\ \/ ~comparePassword(req[1].passwords.currentPassword,
                                 users[req[1].user].password)
            \/ comparePassword(req[1].passwords.newPassword,
                                users[req[1].user].password))
          => /\ resp'.status = 400
             /\ UNCHANGED store
     /\ (/\ req[1].pc = "userSave"
         /\ req[1].op = "changePassword"
         /\ resp'.status = 200)
          => /\ comparePassword(req[1].passwords.newPassword,
                                users'[req[1].user].password)
             /\ ~comparePassword(req[1].passwords.currentPassword,
                                 users'[req[1].user].password)
     /\ \A u \in DOMAIN users, password \in {"passwd", "qwerty"} :
          login(1, u, password)
            => /\ req'[1].pc = "token"
                    <=> comparePassword(password, users[u].password)
               /\ req'[1].pc # "token" => resp'.status = 401
     /\ req[1].pc = "token" /\ req'[1] # req[1] => resp'.status = 200]_vars

\* after a change-password of the user, a login presenting the old password
\* was answered 401
OldPasswordRefused ==
  /\ resp.op = "login"
  /\ resp.status = 401
  /\ comparePassword("qwerty", users[resp.user].password)

====
